---------------------------- MODULE Spec2Model ----------------------------
(***************************************************************************)
(* A model of the pr-reviewer scripts: the PR consolidation map            *)
(* (pr-consolidation-map.ts), the strategy selector (strategy-selector),   *)
(* the consolidators (pr-consolidator-v4, pr-consolidator-enhanced,        *)
(* pr-consolidator), the webhook server, the merge-conflict analysis of    *)
(* the main-branch analyzer, the report utilities (formatDateCST and       *)
(* saveReport), the auto reviewer (autoReviewPR) and the priority score of *)
(* pr-analyzer.                                                            *)
(*                                                                         *)
(* Each script is a state machine of its own, with its own variables and   *)
(* its own specification (SpecMap, SpecGroups, SpecSel, SpecV4,            *)
(* SpecRollUp, SpecEnh, SpecCons, SpecHook, SpecMba, SpecAuto, SpecAn);    *)
(* the variables of the other scripts stay at their idle value.            *)
(* SpecGroups runs the consolidation map on the dependencies that          *)
(* detectDependencies finds among groups of PRs; SpecRollUp applies        *)
(* processRollingUpStrategy to lists of PRs.                               *)
(*                                                                         *)
(* Conventions:                                                            *)
(*   - a PR is identified by its number; a list is a sequence;             *)
(*   - createdAt is a day number (new Date(createdAt).getTime() ordered);  *)
(*   - a confidence 0.7 is the integer 7 (tenths);                         *)
(*   - the id `integration-point-${n}` is the integer n.                   *)
(***************************************************************************)
EXTENDS Integers, Sequences, FiniteSets, TLC

VARIABLES
  (* pr-consolidation-map.ts *)
  mapPc, mapPrs, mapDeps, mapPoints, mapPlan,
  (* strategy-selector: determineStrategy *)
  selPc, selFactors, selRec,
  (* pr-consolidator-v4.ts *)
  v4Pc, v4Args, v4Repo, v4PrNumbers, v4Prs, v4Rec, v4Plan, v4Report, v4Calls,
  v4Idx, v4Exit, v4Out,
  (* pr-consolidator-v4.ts: processRollingUpStrategy *)
  ruPc, ruPrs, ruPlan,
  (* pr-consolidator-enhanced.ts *)
  enhPc, enhArgs, enhRepo, enhPrs, enhAnalyses, enhRec, enhReport, enhCalls, enhIdx,
  (* pr-consolidator.ts *)
  consPc, consRepo, consGroup, consStrategy, consKeep, consConfirm, consIdx,
  consMerged, consCalls,
  (* webhook-server.ts *)
  hookSecret, hookUp, hookReqs, hookStage, hookResponses, hookReviews,
  (* analyzers/main-branch-analyzer.ts *)
  mbaPc, mbaRepo, mbaPr, mbaConflicts, mbaCommands,
  (* utils: formatDateCST, saveReport: the clock and the output directory *)
  repClock, repFiles, repSaved,
  (* pr-auto-reviewer.ts *)
  autoPc, autoArgv, autoPr, autoAnalyses, autoReady, autoRequests, autoExit,
  (* pr-analyzer.ts: analyzePullRequest *)
  anPc, anPr, anScore

mapVars == <<mapPc, mapPrs, mapDeps, mapPoints, mapPlan>>
selVars == <<selPc, selFactors, selRec>>

v4Vars == <<v4Pc, v4Args, v4Repo, v4PrNumbers, v4Prs, v4Rec, v4Plan, v4Report,
           v4Calls, v4Idx, v4Exit, v4Out>>

ruVars == <<ruPc, ruPrs, ruPlan>>

enhVars == <<enhPc, enhArgs, enhRepo, enhPrs, enhAnalyses, enhRec, enhReport,
            enhCalls, enhIdx>>

consVars == <<consPc, consRepo, consGroup, consStrategy, consKeep, consConfirm,
             consIdx, consMerged, consCalls>>

hookVars == <<hookSecret, hookUp, hookReqs, hookStage, hookResponses, hookReviews>>

mbaVars == <<mbaPc, mbaRepo, mbaPr, mbaConflicts, mbaCommands>>

repVars == <<repClock, repFiles, repSaved>>

autoVars == <<autoPc, autoArgv, autoPr, autoAnalyses, autoReady, autoRequests, autoExit>>

anVars == <<anPc, anPr, anScore>>

vars == <<mapVars, selVars, v4Vars, ruVars, enhVars, consVars, hookVars, mbaVars, repVars, autoVars, anVars>>

\* The variables of the other scripts
NotMap ==
  <<selVars, v4Vars, ruVars, enhVars, consVars, hookVars, mbaVars, repVars, autoVars, anVars>>
NotSel ==
  <<mapVars, v4Vars, ruVars, enhVars, consVars, hookVars, mbaVars, repVars, autoVars, anVars>>
NotV4 ==
  <<mapVars, selVars, ruVars, enhVars, consVars, hookVars, mbaVars, repVars, autoVars, anVars>>
NotEnh ==
  <<mapVars, selVars, v4Vars, ruVars, consVars, hookVars, mbaVars, repVars, autoVars, anVars>>
NotCons ==
  <<mapVars, selVars, v4Vars, ruVars, enhVars, hookVars, mbaVars, repVars, autoVars, anVars>>
NotHook ==
  <<mapVars, selVars, v4Vars, ruVars, enhVars, consVars, mbaVars, repVars, autoVars, anVars>>
NotMba ==
  <<mapVars, selVars, v4Vars, ruVars, enhVars, consVars, hookVars, repVars, autoVars, anVars>>
\* pr-auto-reviewer.ts writes its reports into the output directory
NotAuto ==
  <<mapVars, selVars, v4Vars, ruVars, enhVars, consVars, hookVars, mbaVars, anVars>>
NotRollUp ==
  <<mapVars, selVars, v4Vars, enhVars, consVars, hookVars, mbaVars, repVars,
    autoVars, anVars>>
NotAn ==
  <<mapVars, selVars, v4Vars, ruVars, enhVars, consVars, hookVars, mbaVars, repVars, autoVars>>

(***************************************************************************)
(* Helpers on sequences (Array.prototype.includes / filter / slice).       *)
(***************************************************************************)
Includes(s, x) == \E i \in 1..Len(s) : s[i] = x

Range(s) == { s[i] : i \in 1..Len(s) }

\* Array.prototype.slice(from, to) with 0-based from (inclusive), to (exclusive)
Slice(s, from, to) ==
  LET hi == IF to > Len(s) THEN Len(s) ELSE to
  IN  IF from >= hi THEN << >> ELSE [i \in 1..(hi - from) |-> s[from + i]]

\* All sequences over S of length at most n
SeqsUpTo(S, n) == UNION { [1..k -> S] : k \in 0..n }

\* Array.prototype.sort with the comparator (a, b) => key(a) - key(b): stable,
\* ascending in key; key[i] is the key of s[i]
SortedBy(s, key) ==
  LET n == Len(s)
      rank(i) == 1 + Cardinality({ j \in 1..n :
                        key[j] < key[i] \/ (key[j] = key[i] /\ j < i) })
  IN  [r \in 1..n |-> s[CHOOSE i \in 1..n : rank(i) = r]]

SortedOldestFirst(prs) == SortedBy(prs, [i \in 1..Len(prs) |-> prs[i].createdAt])

SortedNewestFirst(prs) == SortedBy(prs, [i \in 1..Len(prs) |-> 0 - prs[i].createdAt])

\* The elements of s in order of first appearance
RECURSIVE Distinct(_)
Distinct(s) ==
  IF s = << >> THEN << >>
  ELSE LET front == Distinct(SubSeq(s, 1, Len(s) - 1))
       IN  IF Includes(front, s[Len(s)]) THEN front ELSE Append(front, s[Len(s)])

RECURSIVE Flatten(_)
Flatten(ss) == IF ss = << >> THEN << >> ELSE Head(ss) \o Flatten(Tail(ss))

DigitChars == <<"0", "1", "2", "3", "4", "5", "6", "7", "8", "9">>

\* The decimal digits of n, left-padded with zeros to width characters
RECURSIVE Padded(_, _)
Padded(n, width) ==
  IF width = 0 THEN << >>
  ELSE Append(Padded(n \div 10, width - 1), DigitChars[(n % 10) + 1])

\* `${prNumber}`, number.toString()
Decimal(n) == IF n < 10 THEN Padded(n, 1) ELSE IF n < 100 THEN Padded(n, 2) ELSE Padded(n, 3)

(***************************************************************************)
(* pr-consolidation-map.ts                                                 *)
(***************************************************************************)
MIN_INTEGRATION_POINT_SIZE == 2
MAX_INTEGRATION_POINT_SIZE == 5

\* Bounds of the consolidation-map inputs
MaxMapPRs == 4
MaxMapDeps == 2
MaxGroupPRs == 6

\* The (dependencyType, confidence) pairs detectDependencies produces
DepKinds ==
  { <<"builds-on", 7>>, <<"builds-on", 6>>, <<"depends-on", 8>>, <<"depends-on", 9>>,
    <<"conflicts-with", 5>> }

IsOrderingDep(dep) ==
  dep.dependencyType = "builds-on" \/ dep.dependencyType = "depends-on"

\* One scan of `for (const dep of dependencies)` in findConnectedPRs for the
\* PR `current`, from dependency index i on: the result set (in insertion
\* order) and the queue after it.
RECURSIVE ScanDependencies(_, _, _, _, _)
ScanDependencies(i, current, result, queue, dependencies) ==
  IF i > Len(dependencies) THEN [result |-> result, queue |-> queue]
  ELSE
    LET dep == dependencies[i]
        hit == /\ (dep.fromPR = current \/ dep.toPR = current)
               /\ IsOrderingDep(dep)
               /\ dep.confidence >= 7
        other == IF dep.fromPR = current THEN dep.toPR ELSE dep.fromPR
    IN  IF hit /\ ~Includes(result, other)
          THEN ScanDependencies(i + 1, current, Append(result, other),
                                Append(queue, other), dependencies)
          ELSE ScanDependencies(i + 1, current, result, queue, dependencies)

RECURSIVE ConnectedLoop(_, _, _)
ConnectedLoop(result, queue, dependencies) ==
  IF queue = << >> THEN result
  ELSE
    LET r == ScanDependencies(1, Head(queue), result, Tail(queue), dependencies)
    IN  ConnectedLoop(r.result, r.queue, dependencies)

\* findConnectedPRs: breadth-first over the strong builds-on / depends-on
\* dependencies, in both directions; Array.from(result) keeps insertion order.
findConnectedPRs(prNumber, dependencies) ==
  ConnectedLoop(<<prNumber>>, <<prNumber>>, dependencies)

NewPoint(points, prsToInclude) ==
  [id |-> Len(points) + 1, prs |-> prsToInclude, requiredBefore |-> << >>]

\* First pass: integration points from strongly connected PRs
RECURSIVE FirstPass(_, _, _, _, _)
FirstPass(i, prs, dependencies, points, assigned) ==
  IF i > Len(prs) THEN [points |-> points, assigned |-> assigned]
  ELSE
    IF prs[i] \in assigned
      THEN FirstPass(i + 1, prs, dependencies, points, assigned)
    ELSE
      LET connectedPRs == findConnectedPRs(prs[i], dependencies)
          prsToInclude == Slice(connectedPRs, 0, MAX_INTEGRATION_POINT_SIZE)
      IN  IF Len(connectedPRs) <= 1
            THEN FirstPass(i + 1, prs, dependencies, points, assigned)
            ELSE FirstPass(i + 1, prs, dependencies,
                           Append(points, NewPoint(points, prsToInclude)),
                           assigned \cup Range(prsToInclude))

\* Second pass: the remaining PRs in chunks of MAX_INTEGRATION_POINT_SIZE;
\* a chunk below MIN_INTEGRATION_POINT_SIZE is skipped.
RECURSIVE SecondPass(_, _, _, _)
SecondPass(i, remainingPRs, points, assigned) ==
  IF i >= Len(remainingPRs) THEN [points |-> points, assigned |-> assigned]
  ELSE
    LET prsToInclude == Slice(remainingPRs, i, i + MAX_INTEGRATION_POINT_SIZE)
    IN  IF Len(prsToInclude) < MIN_INTEGRATION_POINT_SIZE
          THEN SecondPass(i + MAX_INTEGRATION_POINT_SIZE, remainingPRs, points, assigned)
          ELSE SecondPass(i + MAX_INTEGRATION_POINT_SIZE, remainingPRs,
                          Append(points, NewPoint(points, prsToInclude)),
                          assigned \cup Range(prsToInclude))

\* hasDependency of the third pass: some PR of pointA builds on / depends on
\* some PR of pointB
HasDependency(pointA, pointB, dependencies) ==
  \E a \in 1..Len(pointA.prs) : \E b \in 1..Len(pointB.prs) :
    \E d \in 1..Len(dependencies) :
      /\ dependencies[d].fromPR = pointA.prs[a]
      /\ dependencies[d].toPR = pointB.prs[b]
      /\ IsOrderingDep(dependencies[d])

\* Third pass: pointA.requiredBefore collects, in index order, the ids of the
\* points pointA depends on
ThirdPass(points, dependencies) ==
  [i \in 1..Len(points) |->
     [points[i] EXCEPT !.requiredBefore =
        LET js == SelectSeq([j \in 1..Len(points) |-> j],
                            LAMBDA j : j # i /\ HasDependency(points[i], points[j], dependencies))
        IN  [k \in 1..Len(js) |-> points[js[k]].id]]]

\* inDegree after "Add edges based on requiredBefore": the number of points
\* whose requiredBefore names the id
InDegreeOf(points, id) ==
  Cardinality({ i \in 1..Len(points) : Includes(points[i].requiredBefore, id) })

PointById(points, id) ==
  points[CHOOSE i \in 1..Len(points) : points[i].id = id]

\* `for (const neighbor of graph[current])`: decrement, push when it becomes 0
RECURSIVE RelaxNeighbors(_, _, _, _)
RelaxNeighbors(k, neighbors, inDegree, queue) ==
  IF k > Len(neighbors) THEN [inDegree |-> inDegree, queue |-> queue]
  ELSE
    LET n == neighbors[k]
        d == inDegree[n] - 1
    IN  RelaxNeighbors(k + 1, neighbors, [inDegree EXCEPT ![n] = d],
                       IF d = 0 THEN Append(queue, n) ELSE queue)

RECURSIVE KahnLoop(_, _, _, _)
KahnLoop(points, queue, sorted, inDegree) ==
  IF queue = << >> THEN sorted
  ELSE
    LET current == Head(queue)
        r == RelaxNeighbors(1, PointById(points, current).requiredBefore,
                            inDegree, Tail(queue))
    IN  KahnLoop(points, r.queue, Append(sorted, current), r.inDegree)

\* topologicalSort: graph[point.id] = point.requiredBefore, sources are the
\* points of in-degree 0; a cycle returns the original order.
topologicalSort(integrationPoints) ==
  LET ids == { integrationPoints[i].id : i \in 1..Len(integrationPoints) }
      inDegree == [id \in ids |-> InDegreeOf(integrationPoints, id)]
      sources == SelectSeq([i \in 1..Len(integrationPoints) |-> integrationPoints[i].id],
                           LAMBDA id : inDegree[id] = 0)
      sorted == KahnLoop(integrationPoints, sources, << >>, inDegree)
  IN  IF Len(sorted) # Len(integrationPoints) THEN integrationPoints
      ELSE [k \in 1..Len(sorted) |-> PointById(integrationPoints, sorted[k])]

PointsWithoutRemainingPRs(prs, dependencies) ==
  LET p1 == FirstPass(1, prs, dependencies, << >>, {})
      remainingPRs == SelectSeq(prs, LAMBDA n : n \notin p1.assigned)
      p2 == SecondPass(0, remainingPRs, p1.points, p1.assigned)
  IN  ThirdPass(p2.points, dependencies)

\* The integration points before the final sort
UnsortedIntegrationPoints(prs, dependencies) ==
  LET p1 == FirstPass(1, prs, dependencies, << >>, {})
      remainingPRs == SelectSeq(prs, LAMBDA n : n \notin p1.assigned)
      p2 == SecondPass(0, remainingPRs, p1.points, p1.assigned)
      p3 == ThirdPass(p2.points, dependencies)
      unassignedPRs == SelectSeq(prs, LAMBDA n : n \notin p2.assigned)
  IN  IF Len(unassignedPRs) > 0
        THEN Append(p3, NewPoint(p3, unassignedPRs))
        ELSE p3

identifyIntegrationPoints(prs, dependencies) ==
  topologicalSort(UnsortedIntegrationPoints(prs, dependencies))

\* A line of an implementation plan: its section (the integration point id,
\* 0 outside the integration points), its printed number, what it does and
\* the PR or branch (integration point id) it names
PlanStep(section, num, action, ref) ==
  [section |-> section, num |-> num, action |-> action, ref |-> ref]

PRByNumber(prs, n) == prs[CHOOSE i \in 1..Len(prs) : prs[i].number = n]

\* The section of integration point i of generateImplementationPlan.  The
\* "Run ... tests" line, which depends on the file paths only, is left out.
PlanSection(prs, integrationPoints, i) ==
  LET point == integrationPoints[i]
      n == Len(point.prs)
      byAge == SortedBy(point.prs,
                        [k \in 1..n |-> PRByNumber(prs, point.prs[k]).createdAt])
  IN  (IF i = 1
         THEN <<PlanStep(point.id, 1, "start-with-pr", byAge[1])>>
              \o [k \in 1..(n - 1) |-> PlanStep(point.id, 2, "add-changes", byAge[k + 1])]
         ELSE <<PlanStep(point.id, 1, "start-with-branch", integrationPoints[i - 1].id)>>
              \o [k \in 1..n |-> PlanStep(point.id, k + 1, "add-changes", point.prs[k])])
      \o <<PlanStep(point.id, n + 3, "create-branch", point.id)>>

\* The "Final Consolidation" section (finalPR = 0: null)
FinalSection(integrationPoints, finalPR) ==
  IF finalPR = 0 THEN << >>
  ELSE (IF Len(integrationPoints) > 0
          THEN <<PlanStep(0, 1, "start-with-branch",
                          integrationPoints[Len(integrationPoints)].id),
                 PlanStep(0, 2, "add-changes", finalPR)>>
          ELSE <<PlanStep(0, 1, "start-with-pr", finalPR)>>)
       \o <<PlanStep(0, 3, "run-tests", 0), PlanStep(0, 4, "update-docs", 0),
            PlanStep(0, 5, "create-final-pr", 0)>>

\* generateImplementationPlan: one section per integration point, in list
\* order, section i > 1 starting from the branch of section i - 1
generateImplementationPlan(prs, integrationPoints, finalPR) ==
  Flatten([i \in 1..Len(integrationPoints) |-> PlanSection(prs, integrationPoints, i)])
  \o FinalSection(integrationPoints, finalPR)

\* addDependency: no self-dependency; one entry per (fromPR, toPR, type),
\* keeping the higher confidence
addDependency(dependencies, dep) ==
  IF dep.fromPR = dep.toPR THEN dependencies
  ELSE IF \E i \in 1..Len(dependencies) :
            /\ dependencies[i].fromPR = dep.fromPR
            /\ dependencies[i].toPR = dep.toPR
            /\ dependencies[i].dependencyType = dep.dependencyType
    THEN [i \in 1..Len(dependencies) |->
            IF /\ dependencies[i].fromPR = dep.fromPR
               /\ dependencies[i].toPR = dep.toPR
               /\ dependencies[i].dependencyType = dep.dependencyType
               /\ dep.confidence > dependencies[i].confidence
              THEN [dependencies[i] EXCEPT !.confidence = dep.confidence]
              ELSE dependencies[i]]
    ELSE Append(dependencies, dep)

\* addDependency called with each candidate in turn (the test of Len(added)
\* has the list computed before the next call, not after the last one)
RECURSIVE AddAll(_, _)
AddAll(dependencies, candidates) ==
  IF candidates = << >> THEN dependencies
  ELSE LET added == addDependency(dependencies, Head(candidates))
       IN  CASE Len(added) >= 0 -> AddAll(added, Tail(candidates))

Dependency(from, to, type, confidence) ==
  [fromPR |-> from, toPR |-> to, dependencyType |-> type, confidence |-> confidence]

\* Rule 1 for one file: the PRs that modify it, by timestamp; each builds on
\* the one before it
SequentialModifications(prs, file) ==
  LET mods == SortedOldestFirst(SelectSeq(prs, LAMBDA pr : Includes(pr.files, file)))
  IN  [k \in 1..(Len(mods) - 1) |->
         Dependency(mods[k + 1].number, mods[k].number, "builds-on", 7)]

\* Rule 5: pr1 conflicts with pr2 when they modify a common file
PotentialConflicts(prs) ==
  LET pairs == Flatten([i \in 1..Len(prs) |-> [j \in 1..Len(prs) |-> <<i, j>>]])
      hits == SelectSeq(pairs, LAMBDA p :
                /\ prs[p[1]].number # prs[p[2]].number
                /\ Range(prs[p[1]].files) \cap Range(prs[p[2]].files) # {})
  IN  [k \in 1..Len(hits) |->
         Dependency(prs[hits[k][1]].number, prs[hits[k][2]].number, "conflicts-with", 5)]

\* The head branch of PR n when it is named after nothing else
BranchName(n) ==
  <<"b", "r", "-", <<"a", "b", "c", "d", "e", "f", "g", "h">>[n]>>

\* detectDependencies: rule 1 file by file, rule 2 (commit messages), rule 3
\* (the body), rule 4 (branch names) and rule 5 (conflicts), in that order.
\* Of a pull request it reads number, createdAt, files, commits, body and
\* headRefName.  A commit message and the body are kept as the sequence of
\* the numbers n of their `#n` references (message.match(/#(\d+)/g) and
\* parseInt); headRefName is a string.
detectDependencies(prs) ==
  LET files == Distinct(Flatten([i \in 1..Len(prs) |-> prs[i].files]))
      rule1 == Flatten([f \in 1..Len(files) |-> SequentialModifications(prs, files[f])])
      \* the references of texts to a PR of the set
      References(pr, texts, confidence) ==
        LET refs == SelectSeq(Flatten(texts),
                              LAMBDA n : \E i \in 1..Len(prs) : prs[i].number = n)
        IN  [k \in 1..Len(refs) |->
               Dependency(pr.number, refs[k], "depends-on", confidence)]
      rule2 == Flatten([i \in 1..Len(prs) |-> References(prs[i], prs[i].commits, 9)])
      rule3 == Flatten([i \in 1..Len(prs) |-> References(prs[i], <<prs[i].body>>, 8)])
      \* String.prototype.includes
      StrIncludes(str, sub) ==
        \E i \in 0..(Len(str) - Len(sub)) : SubSeq(str, i + 1, i + Len(sub)) = sub
      pairs == Flatten([i \in 1..Len(prs) |-> [j \in 1..Len(prs) |-> <<i, j>>]])
      named == SelectSeq(pairs, LAMBDA p :
                 /\ prs[p[1]].number # prs[p[2]].number
                 /\ \/ StrIncludes(prs[p[1]].headRefName, prs[p[2]].headRefName)
                    \/ StrIncludes(prs[p[1]].headRefName, Decimal(prs[p[2]].number)))
      rule4 == [k \in 1..Len(named) |->
                  Dependency(prs[named[k][1]].number, prs[named[k][2]].number,
                             "builds-on", 6)]
  IN  AddAll(<< >>, rule1 \o rule2 \o rule3 \o rule4 \o PotentialConflicts(prs))

\* createConsolidationMap (the visual map is left out)
createConsolidationMap(prs) ==
  LET sortedPRs == SortedOldestFirst(prs)
      dependencies == detectDependencies(sortedPRs)
      integrationPoints ==
        identifyIntegrationPoints([i \in 1..Len(sortedPRs) |-> sortedPRs[i].number],
                                  dependencies)
      finalPR == IF Len(sortedPRs) > 0 THEN sortedPRs[Len(sortedPRs)].number ELSE 0
  IN  [integrationPoints |-> integrationPoints,
       dependencies |-> dependencies,
       finalPR |-> finalPR,
       implementationPlan |-> generateImplementationPlan(sortedPRs, integrationPoints, finalPR)]

\* The PRs 1..n and a list of dependencies over them, as addDependency
\* keeps it: one dependency per (fromPR, toPR, dependencyType)
MapStart ==
  LET DepUniverse(n) ==
        { [fromPR |-> p[1], toPR |-> p[2], dependencyType |-> k[1], confidence |-> k[2]] :
            p \in { q \in (1..n) \X (1..n) : q[1] # q[2] }, k \in DepKinds }
      NoDuplicateDeps(deps) ==
        \A i, j \in 1..Len(deps) :
          (i # j) => ~(/\ deps[i].fromPR = deps[j].fromPR
                       /\ deps[i].toPR = deps[j].toPR
                       /\ deps[i].dependencyType = deps[j].dependencyType)
  IN  /\ mapPc = "input"
      /\ \E n \in 0..MaxMapPRs :
           /\ mapPrs = [i \in 1..n |-> i]
           /\ mapDeps \in { d \in SeqsUpTo(DepUniverse(n), MaxMapDeps) : NoDuplicateDeps(d) }
      /\ mapPoints = << >>
      /\ mapPlan = << >>

MapIdle ==
  /\ mapPc = "idle"
  /\ mapPrs = << >>
  /\ mapDeps = << >>
  /\ mapPoints = << >>
  /\ mapPlan = << >>

\* createConsolidationMap, lines 84-88
MapIdentify ==
  /\ mapPc = "input"
  /\ mapPoints' = identifyIntegrationPoints(mapPrs, mapDeps)
  /\ mapPc' = "identified"
  /\ UNCHANGED <<mapPrs, mapDeps, mapPlan>>
  /\ UNCHANGED NotMap

\* createConsolidationMap, lines 91-97; mapPrs is sorted oldest first, the
\* creation time of a PR being its position
MapPlan ==
  /\ mapPc = "identified"
  /\ mapPlan' = generateImplementationPlan(
                   [i \in 1..Len(mapPrs) |-> [number |-> mapPrs[i], createdAt |-> i]],
                   mapPoints,
                   IF Len(mapPrs) > 0 THEN mapPrs[Len(mapPrs)] ELSE 0)
  /\ mapPc' = "planned"
  /\ UNCHANGED <<mapPrs, mapDeps, mapPoints>>
  /\ UNCHANGED NotMap

MapNext == MapIdentify \/ MapPlan

\* n PRs, numbered in creation order, each modifying one of the lists of
\* files and referencing no PR
ModifyingPRs(n, fileLists) ==
  { [i \in 1..n |->
       [number |-> i, createdAt |-> i, files |-> files[i], commits |-> << >>,
        body |-> << >>, headRefName |-> BranchName(i)]] :
      files \in [1..n -> fileLists] }

\* n PRs, numbered in creation order, some of them modifying the same file,
\* and one of them referencing another one: in a commit message, in the
\* body, or in the name of its head branch (after the other branch's name,
\* or after the other PR's number)
ModifyingPRsWithReference(n) ==
  LET refs(r, i, kind) == IF r.from = i /\ r.kind = kind THEN <<r.to>> ELSE << >>
      head(r, i) ==
        IF refs(r, i, "branch") # << >>
          THEN BranchName(r.to) \o <<"-", BranchName(i)[4]>>
        ELSE IF refs(r, i, "number") # << >>
          THEN <<"p", "r">> \o Decimal(r.to) \o <<"-", BranchName(i)[4]>>
        ELSE BranchName(i)
  IN  { [i \in 1..n |->
           [number |-> i,
            createdAt |-> i,
            files |-> IF i \in touching THEN <<"a.ts">> ELSE << >>,
            commits |-> IF refs(r, i, "commit") # << >> THEN <<refs(r, i, "commit")>>
                                                        ELSE << >>,
            body |-> refs(r, i, "body"),
            headRefName |-> head(r, i)]] :
          touching \in SUBSET (1..n),
          r \in { x \in [from : 1..n, to : 1..n,
                         kind : {"commit", "body", "branch", "number"}] :
                    x.from # x.to } }

\* createConsolidationMap, lines 80-88: the arguments identifyIntegrationPoints
\* is called with are the PRs sorted by createdAt and the dependencies
\* detectDependencies finds among them.  The PRs are up to MaxGroupPRs PRs
\* that modify one file or none, or up to MaxMapPRs PRs that modify two
\* files, one, or none, or of which one references another.
GroupsStart ==
  /\ mapPc = "input"
  /\ \E group \in {"one file", "two files", "reference"} :
       \E n \in 0..(IF group = "one file" THEN MaxGroupPRs ELSE MaxMapPRs) :
         \E prs \in CASE group = "one file" -> ModifyingPRs(n, { << >>, <<"a.ts">> })
                        [] group = "two files" ->
                             ModifyingPRs(n, { << >>, <<"a.ts">>, <<"b.ts">>,
                                               <<"a.ts", "b.ts">> })
                        [] OTHER -> ModifyingPRsWithReference(n) :
           LET sortedPRs == SortedOldestFirst(prs)
           IN  /\ mapPrs = [i \in 1..Len(sortedPRs) |-> sortedPRs[i].number]
               /\ mapDeps = detectDependencies(sortedPRs)
  /\ mapPoints = << >>
  /\ mapPlan = << >>

(***************************************************************************)
(* strategy-selector (determineStrategy, analyzePRsForStrategyFactors)     *)
(***************************************************************************)
MAX_PRS_FOR_KEEP_LATEST == 5
\* CONFLICT_PROBABILITY_THRESHOLD 0.4 and the fixed 0.2, in percent
CONFLICT_PROBABILITY_THRESHOLD == 40
LOW_CONFLICT_PROBABILITY == 20
\* DEFAULT_STRATEGY (process.env.DEFAULT_STRATEGY || 'auto')
DEFAULT_STRATEGY == "auto"

Strategies == <<"keep-latest", "rolling-up", "consolidation-map">>

\* The score each factor adds, as <<keepLatest, rollingUp, consolidationMap>>
PrCountScore(prCount) ==
  IF prCount <= 3 THEN <<20, 15, 5>>
  ELSE IF prCount <= MAX_PRS_FOR_KEEP_LATEST THEN <<15, 20, 15>>
  ELSE <<5, 10, 25>>

ComplexityScore(changeComplexity) ==
  IF changeComplexity = "Low" THEN <<25, 10, 5>>
  ELSE IF changeComplexity = "Medium" THEN <<15, 20, 20>>
  ELSE <<5, 25, 20>>

CriticalPathScore(criticalPathChanges) ==
  IF criticalPathChanges THEN <<0, 25, 20>> ELSE <<15, 10, 10>>

DeveloperScore(developerCount) ==
  IF developerCount <= 1 THEN <<20, 15, 10>>
  ELSE IF developerCount <= 3 THEN <<10, 20, 15>>
  ELSE <<5, 15, 25>>

ConflictScore(conflictProbability) ==
  IF conflictProbability < LOW_CONFLICT_PROBABILITY THEN <<20, 10, 10>>
  ELSE IF conflictProbability < CONFLICT_PROBABILITY_THRESHOLD THEN <<10, 15, 20>>
  ELSE <<0, 25, 20>>

TimeSpanScore(timeSpan) ==
  IF timeSpan < 3 THEN <<15, 10, 10>>
  ELSE IF timeSpan < 14 THEN <<10, 15, 15>>
  ELSE <<5, 10, 20>>

\* keepLatestScore, rollingUpScore, consolidationMapScore after the six factors
StrategyScores(factors) ==
  LET parts == << PrCountScore(factors.prCount),
                  ComplexityScore(factors.changeComplexity),
                  CriticalPathScore(factors.criticalPathChanges),
                  DeveloperScore(factors.developerCount),
                  ConflictScore(factors.conflictProbability),
                  TimeSpanScore(factors.timeSpan) >>
  IN  [k \in 1..3 |->
         parts[1][k] + parts[2][k] + parts[3][k] + parts[4][k] + parts[5][k] + parts[6][k]]

\* "Determine the best strategy": the index (into Strategies) recommended
RecommendedIndex(scores) ==
  IF DEFAULT_STRATEGY # "auto"
    THEN CHOOSE k \in 1..3 : Strategies[k] = DEFAULT_STRATEGY
  ELSE IF scores[1] >= scores[2] /\ scores[1] >= scores[3] THEN 1
  ELSE IF scores[2] >= scores[1] /\ scores[2] >= scores[3] THEN 2
  ELSE 3

\* determineStrategy; the reasoning, pros and cons texts are left out
determineStrategy(factors) ==
  LET scores == StrategyScores(factors)
      best == RecommendedIndex(scores)
      all == [k \in 1..3 |-> [strategy |-> Strategies[k], score |-> scores[k]]]
  IN  [recommendedStrategy |-> Strategies[best],
       confidence |-> scores[best],
       alternativeStrategies |->
         SelectSeq(all, LAMBDA a : a.strategy # Strategies[best])]

\* Every strategy with its score, as generateStrategyVisualization tabulates
\* them (`${score}/100`): the recommended one with the confidence, then the
\* alternatives, sorted by score, highest first
AllStrategyScores(recommendation) ==
  LET allStrategies ==
        <<[strategy |-> recommendation.recommendedStrategy,
           score |-> recommendation.confidence]>> \o recommendation.alternativeStrategies
  IN  SortedBy(allStrategies, [i \in 1..Len(allStrategies) |-> 0 - allStrategies[i].score])

\* Bounds of the analysis factors
MaxPrCount == 6
MaxDevelopers == 4
MaxTimeSpan == 14

ConflictPercents == {0, 19, 20, 39, 40, 100}

FactorsUniverse ==
  [prCount : 0..MaxPrCount,
   changeComplexity : {"Low", "Medium", "High"},
   criticalPathChanges : BOOLEAN,
   developerCount : 0..MaxDevelopers,
   timeSpan : (0 - 1)..MaxTimeSpan,
   conflictProbability : ConflictPercents]

NoRecommendation ==
  [recommendedStrategy |-> "none", confidence |-> 0, alternativeStrategies |-> << >>]

SelStart ==
  /\ selPc = "input"
  /\ selFactors \in FactorsUniverse
  /\ selRec = NoRecommendation

SelIdle ==
  /\ selPc = "idle"
  /\ selFactors = [prCount |-> 0, changeComplexity |-> "Low", criticalPathChanges |-> FALSE,
                   developerCount |-> 0, timeSpan |-> 0, conflictProbability |-> 0]
  /\ selRec = NoRecommendation

SelDetermine ==
  /\ selPc = "input"
  /\ selRec' = determineStrategy(selFactors)
  /\ selPc' = "done"
  /\ UNCHANGED selFactors
  /\ UNCHANGED NotSel

SelNext == SelDetermine

(***************************************************************************)
(* pr-consolidator-v4.ts                                                   *)
(*                                                                         *)
(* A file path is split into its directory, its base name and its          *)
(* extension; the repository holds the pull requests 1..MaxV4PRs, every    *)
(* other number being one the GitHub API cannot fetch.                     *)
(***************************************************************************)
MaxV4PRs == 2
MaxDay == 2
MissingPR == 9999

V4Strategies == {"keep-latest", "rolling-up", "consolidation-map"}

File(dir, name, ext) == [dir |-> dir, name |-> name, ext |-> ext]

\* The pull request n of a repository: in a "docs" repository one author
\* edits one markdown page per PR; in an "api" repository every PR, each by
\* its own author, edits the same route handler
RepoPR(repo, n) ==
  [number |-> n,
   createdAt |-> repo.createdAt[n],
   author |-> IF repo.profile = "docs" THEN 0 ELSE n,
   files |-> IF repo.profile = "docs" THEN <<File("docs", n, "md")>>
             ELSE <<File("app/api", 0, "ts")>>,
   commits |-> << >>,
   body |-> << >>,
   headRefName |-> BranchName(n)]

\* PR numbers are handed out in creation order
Repos ==
  { repo \in [createdAt : [1..MaxV4PRs -> 1..MaxDay], profile : {"docs", "api"}] :
      \A n, m \in 1..MaxV4PRs : n < m => repo.createdAt[n] <= repo.createdAt[m] }

\* A comma-separated piece of --prs: parseInt gives a number or NaN
PrTokens ==
  { [isNumber |-> TRUE, value |-> n] : n \in (1..MaxV4PRs) \cup {MissingPR} }
    \cup { [isNumber |-> FALSE, value |-> 0] }

\* getPRNumbers with --prs: split(','), parseInt, filter(!isNaN)
ParsePrsArg(prsArg) ==
  LET numbers == SelectSeq(prsArg, LAMBDA t : t.isNumber)
  IN  [i \in 1..Len(numbers) |-> numbers[i].value]

\* octokit.pulls.list, state open, sorted by creation, ascending
OpenPullRequests(repo) ==
  SortedOldestFirst([n \in 1..MaxV4PRs |-> RepoPR(repo, n)])

\* getPRNumbers without --prs: the answer, read by parseNumberRanges as
\* 1-based positions in the displayed list, positions outside it dropped
SelectFromList(pullRequests, positions) ==
  LET valid == SelectSeq(positions, LAMBDA i : i - 1 >= 0 /\ i - 1 < Len(pullRequests))
  IN  [k \in 1..Len(valid) |-> pullRequests[valid[k]].number]

\* fetchPRsWithDetails: the PRs that cannot be fetched are skipped
fetchPRsWithDetails(prNumbers, repo) ==
  LET fetched == SelectSeq(prNumbers, LAMBDA n : n \in 1..MaxV4PRs)
  IN  [i \in 1..Len(fetched) |-> RepoPR(repo, fetched[i])]

CriticalDirectories == {"app/lib/services", "app/components/auth", "app/api", "middleware"}

IsCriticalFile(file) == file.dir \in CriticalDirectories

\* complexFilePatterns: .ts/.tsx/.js/.jsx, or a path through middleware or api/
IsComplexFile(file) ==
  \/ file.ext \in {"ts", "tsx", "js", "jsx"}
  \/ file.dir \in {"middleware", "app/api"}

Min(S) == CHOOSE x \in S : \A y \in S : x <= y
Max(S) == CHOOSE x \in S : \A y \in S : x >= y

\* analyzePRsForStrategyFactors; now is the day the script runs.  Every PR
\* modifies at least one file, so the ratios are over a non-empty file set
\* as soon as there is a PR; with no PR the ratio is NaN and every
\* comparison with it is false.
analyzePRsForStrategyFactors(prs, now) ==
  LET allFiles == UNION { Range(prs[i].files) : i \in 1..Len(prs) }
      developers == { prs[i].author : i \in 1..Len(prs) }
      created == { prs[i].createdAt : i \in 1..Len(prs) }
      oldestDate == Min(created \cup {now})
      newestDate == Max(created \cup {0})
      modifications(f) == Cardinality({ i \in 1..Len(prs) : Includes(prs[i].files, f) })
      multiModifiedFiles == Cardinality({ f \in allFiles : modifications(f) > 1 })
      complexFileCount == Cardinality({ f \in allFiles : IsComplexFile(f) })
      size == Cardinality(allFiles)
  IN  [prCount |-> Len(prs),
       changeComplexity |->
         IF size > 0 /\ (10 * complexFileCount > 7 * size \/ size > 20) THEN "High"
         ELSE IF size > 0 /\ (10 * complexFileCount > 3 * size \/ size > 10) THEN "Medium"
         ELSE "Low",
       criticalPathChanges |-> \E f \in allFiles : IsCriticalFile(f),
       developerCount |-> Cardinality(developers),
       timeSpan |-> newestDate - oldestDate,
       conflictProbability |->
         IF Len(prs) > 1 THEN (100 * multiModifiedFiles) \div size ELSE 0]

\* A selection that leaves --strategy aside and always asks determineStrategy
SelectStrategyIgnoringArgv(argvStrategy, analysisFactors) ==
  determineStrategy(analysisFactors)

\* main, lines 173-187: the strategy of --strategy with confidence 100, or
\* the one determineStrategy recommends
SelectStrategy(argvStrategy, analysisFactors) ==
  IF argvStrategy # "auto"
    THEN [recommendedStrategy |-> argvStrategy, confidence |-> 100,
          alternativeStrategies |-> << >>]
    ELSE determineStrategy(analysisFactors)

\* processKeepLatestStrategy: the plan (prs non-empty)
processKeepLatestStrategy(prs) ==
  LET sortedPRs == SortedNewestFirst(prs)
      latestPR == sortedPRs[1]
      olderPRs == Slice(sortedPRs, 1, Len(sortedPRs))
  IN  [i \in 1..Len(olderPRs) |-> PlanStep(0, 1, "close", olderPRs[i].number)]
      \o <<PlanStep(0, 2, "approve", latestPR.number),
           PlanStep(0, 3, "merge", latestPR.number)>>

RollingUpInListOrder(prs) ==
  LET sortedPRs == SortedOldestFirst(prs)
      basePR == sortedPRs[1]
      k == CHOOSE i \in 1..Len(prs) :
             prs[i] = basePR /\ \A j \in 1..(i - 1) : prs[j] # basePR
      rest == [i \in 1..(Len(prs) - 1) |-> IF i < k THEN prs[i] ELSE prs[i + 1]]
  IN  <<PlanStep(0, 1, "start-with-pr", basePR.number)>>
      \o [i \in 1..Len(rest) |-> PlanStep(0, i + 1, "add-changes", rest[i].number)]
      \o <<PlanStep(0, Len(sortedPRs) + 1, "create-consolidated-pr", 0)>>

\* processRollingUpStrategy: the plan (prs non-empty)
processRollingUpStrategy(prs) ==
  LET sortedPRs == SortedOldestFirst(prs)
      basePR == sortedPRs[1]
  IN  <<PlanStep(0, 1, "start-with-pr", basePR.number)>>
      \o [i \in 1..(Len(sortedPRs) - 1) |->
            PlanStep(0, i + 1, "add-changes", sortedPRs[i + 1].number)]
      \o <<PlanStep(0, Len(sortedPRs) + 1, "create-consolidated-pr", 0)>>

\* main, lines 203-228: the implementation plan of the strategy, under the
\* heading of the function that wrote it
ImplementationPlan(strategy, prs) ==
  [heading |-> strategy,
   steps |-> CASE strategy = "keep-latest" -> processKeepLatestStrategy(prs)
               [] strategy = "rolling-up" -> processRollingUpStrategy(prs)
               [] OTHER -> createConsolidationMap(prs).implementationPlan]

\* processKeepLatestStrategy and processRollingUpStrategy read the number of
\* the first sorted PR and throw a TypeError when there is none
ProcessingThrows(strategy, prs) ==
  strategy \in {"keep-latest", "rolling-up"} /\ Len(prs) = 0

NoPlan == [heading |-> "none", steps |-> << >>]

\* A call that modifies a PR, and whether the GitHub API accepted it
Call(op, pr, ok) == [op |-> op, pr |-> pr, ok |-> ok]

\* executeKeepLatestStrategy: the PR kept and the PRs closed
LatestPR(prs) == SortedNewestFirst(prs)[1]

OlderPRs(prs) == Slice(SortedNewestFirst(prs), 1, Len(prs))

\* The command line and the repository the script is run against
V4Start ==
  /\ v4Pc = "start"
  /\ v4Args \in [prs : SeqsUpTo(PrTokens, MaxV4PRs),
                 strategy : V4Strategies \cup {DEFAULT_STRATEGY},
                 execute : BOOLEAN]
  /\ v4Repo \in Repos
  /\ v4PrNumbers = << >>
  /\ v4Prs = << >>
  /\ v4Rec = NoRecommendation
  /\ v4Plan = NoPlan
  /\ v4Report = << >>
  /\ v4Calls = << >>
  /\ v4Idx = 0
  /\ v4Exit = << >>
  /\ v4Out = << >>

V4Idle ==
  /\ v4Pc = "idle"
  /\ v4Args = [prs |-> << >>, strategy |-> DEFAULT_STRATEGY, execute |-> FALSE]
  /\ v4Repo = [createdAt |-> << >>, profile |-> "docs"]
  /\ v4PrNumbers = << >>
  /\ v4Prs = << >>
  /\ v4Rec = NoRecommendation
  /\ v4Plan = NoPlan
  /\ v4Report = << >>
  /\ v4Calls = << >>
  /\ v4Idx = 0
  /\ v4Exit = << >>
  /\ v4Out = << >>

\* main, lines 111-146: the GitHub token, from .env or from `gh auth token`
\* The token is in .env or `gh auth token` prints it ("found"), `gh auth
\* token` throws ("gh-fails", lines 122-125) or prints nothing ("empty",
\* lines 132-136)
V4Authenticate ==
  /\ v4Pc = "start"
  /\ \E token \in {"found", "gh-fails", "empty"} :
       IF token = "found"
         THEN /\ v4Pc' = "numbers"
              /\ UNCHANGED <<v4Exit, v4Out>>
         ELSE /\ v4Pc' = "exited"
              /\ v4Exit' = <<1>>
              /\ v4Out' = Append(v4Out,
                                 IF token = "gh-fails"
                                   THEN "Error retrieving token from GitHub CLI"
                                   ELSE "GitHub token not found")
  /\ UNCHANGED <<v4Args, v4Repo, v4PrNumbers, v4Prs, v4Rec, v4Plan, v4Report,
                 v4Calls, v4Idx>>
  /\ UNCHANGED NotV4

\* main, lines 150-155, once getPRNumbers has returned prNumbers
GotPRNumbers(prNumbers) ==
  /\ v4PrNumbers' = prNumbers
  /\ IF Len(prNumbers) = 0
       THEN /\ v4Pc' = "exited"
            /\ v4Exit' = <<1>>
            /\ v4Out' = Append(v4Out, "No PRs to consolidate. Exiting.")
       ELSE /\ v4Pc' = "fetch"
            /\ UNCHANGED <<v4Exit, v4Out>>
  /\ UNCHANGED <<v4Args, v4Repo, v4Prs, v4Rec, v4Plan, v4Report, v4Calls, v4Idx>>
  /\ UNCHANGED NotV4

\* getPRNumbers, lines 263-267: --prs was given
V4GetPRNumbersFromArgs ==
  /\ v4Pc = "numbers"
  /\ v4Args.prs # << >>
  /\ GotPRNumbers(ParsePrsArg(v4Args.prs))

\* getPRNumbers, lines 270-330: the open PRs are listed and the user picks
\* positions in the list; a failing listing gives no PR.  When stdin ends
\* before a line is read (answered = FALSE) the promise of lines 297-307
\* never resolves: the list and the prompt are all that was printed and the
\* process ends with exit code 0 once the event loop is empty.
V4GetPRNumbersFromPrompt ==
  /\ v4Pc = "numbers"
  /\ v4Args.prs = << >>
  /\ \E listed, answered \in BOOLEAN,
        positions \in SeqsUpTo(0..(MaxV4PRs + 1), MaxV4PRs) :
       IF listed /\ ~answered
         THEN /\ v4Pc' = "exited"
              /\ v4Exit' = <<0>>
              /\ UNCHANGED <<v4Args, v4Repo, v4PrNumbers, v4Prs, v4Rec, v4Plan, v4Report,
                             v4Calls, v4Idx, v4Out>>
              /\ UNCHANGED NotV4
         ELSE GotPRNumbers(IF listed
                             THEN SelectFromList(OpenPullRequests(v4Repo), positions)
                             ELSE << >>)

\* main, line 160
V4FetchPRs ==
  /\ v4Pc = "fetch"
  /\ v4Prs' = fetchPRsWithDetails(v4PrNumbers, v4Repo)
  /\ v4Pc' = "strategy"
  /\ UNCHANGED <<v4Args, v4Repo, v4PrNumbers, v4Rec, v4Plan, v4Report, v4Calls,
                 v4Idx, v4Exit, v4Out>>
  /\ UNCHANGED NotV4

\* main, lines 166-194: the factors, the strategy and the line
\* "Recommended Strategy: <strategy> (<confidence>% confidence)"
V4SelectStrategy ==
  /\ v4Pc = "strategy"
  /\ v4Rec' = SelectStrategy(v4Args.strategy,
                             analyzePRsForStrategyFactors(v4Prs, MaxDay))
  /\ v4Out' = v4Out \o <<IF v4Args.strategy # "auto"
                           THEN "Using specified strategy"
                           ELSE "Auto-determining optimal strategy",
                         "Recommended Strategy">>
  /\ v4Pc' = "process"
  /\ UNCHANGED <<v4Args, v4Repo, v4PrNumbers, v4Prs, v4Plan, v4Report, v4Calls,
                 v4Idx, v4Exit>>
  /\ UNCHANGED NotV4

\* main, lines 197-228, and the catch of lines 250-254
V4ProcessStrategy ==
  /\ v4Pc = "process"
  /\ IF ProcessingThrows(v4Rec.recommendedStrategy, v4Prs)
       THEN /\ v4Pc' = "exited"
            /\ v4Exit' = <<1>>
            /\ v4Out' = v4Out \o <<"Processing PRs", "Error in main function">>
            /\ UNCHANGED v4Plan
       ELSE /\ v4Plan' = ImplementationPlan(v4Rec.recommendedStrategy, v4Prs)
            /\ v4Out' = Append(v4Out, "Processing PRs")
            /\ v4Pc' = "report"
            /\ UNCHANGED v4Exit
  /\ UNCHANGED <<v4Args, v4Repo, v4PrNumbers, v4Prs, v4Rec, v4Report, v4Calls, v4Idx>>
  /\ UNCHANGED NotV4

\* main, lines 231-244: the report, written under its timestamp and as latest
V4SaveReport ==
  /\ v4Pc = "report"
  /\ v4Report' = Append(v4Report, [strategy |-> v4Rec.recommendedStrategy,
                                   confidence |-> v4Rec.confidence,
                                   plan |-> v4Plan])
  /\ v4Out' = Append(v4Out, "PR Consolidation Analysis saved")
  /\ v4Pc' = "ask"
  /\ UNCHANGED <<v4Args, v4Repo, v4PrNumbers, v4Prs, v4Rec, v4Plan, v4Calls,
                 v4Idx, v4Exit>>
  /\ UNCHANGED NotV4

\* executeStrategy: only keep-latest acts on the repository
ExecuteStrategy ==
  IF v4Rec.recommendedStrategy = "keep-latest"
    THEN /\ v4Pc' = "closing"
         /\ v4Idx' = 1
         /\ UNCHANGED v4Exit
    ELSE /\ v4Pc' = "done"
         /\ v4Exit' = <<0>>
         /\ UNCHANGED v4Idx

\* askForExecution, lines 650-666: --execute
V4ExecuteFlag ==
  /\ v4Pc = "ask"
  /\ v4Args.execute
  /\ ExecuteStrategy
  /\ v4Out' = Append(v4Out, "Automatic execution requested with --execute flag")
  /\ UNCHANGED <<v4Args, v4Repo, v4PrNumbers, v4Prs, v4Rec, v4Plan, v4Report, v4Calls>>
  /\ UNCHANGED NotV4

\* askForExecution, lines 669-717: "Do you want to execute these actions
\* now? (y/N)", asked on the readline interface created at lines 98-101.
\* "closed" is stdin having ended before the question is asked (input from
\* /dev/null, or a pipe that ends while main awaits GitHub): the interface
\* is closed by then, rl.question (line 697) throws, and the catch of main
\* (lines 250-254) exits with code 1.  Otherwise the callback of rl.question
\* runs only when a line arrives (the answer "y", "n" or ""); "eof" is stdin
\* ending after the question and before any line.  When stdin ends without
\* a line, or when the PR numbers were asked for (no --prs) and getPRNumbers
\* has closed its own readline interface on stdin (lines 298-305), which
\* pauses stdin, the question is never answered and the process ends with
\* exit code 0 once the event loop is empty.
V4ExecutePrompt ==
  /\ v4Pc = "ask"
  /\ ~v4Args.execute
  /\ \E answer \in {"y", "n", "", "eof", "closed"} :
       IF answer = "closed"
         THEN /\ v4Pc' = "exited"
              /\ v4Exit' = <<1>>
              /\ v4Out' = Append(v4Out, "Error in main function")
              /\ UNCHANGED v4Idx
       ELSE IF v4Args.prs = << >> \/ answer = "eof"
         THEN /\ v4Pc' = "done"
              /\ v4Exit' = <<0>>
              /\ UNCHANGED <<v4Out, v4Idx>>
       ELSE IF answer = "y"
         THEN /\ ExecuteStrategy
              /\ v4Out' = Append(v4Out, "Executing consolidation actions...")
         ELSE /\ v4Pc' = "done"
              /\ v4Exit' = <<0>>
              /\ v4Out' = Append(v4Out, "No actions executed.")
              /\ UNCHANGED v4Idx
  /\ UNCHANGED <<v4Args, v4Repo, v4PrNumbers, v4Prs, v4Rec, v4Plan, v4Report, v4Calls>>
  /\ UNCHANGED NotV4

\* executeKeepLatestStrategy, lines 760-782: one older PR is commented and
\* then closed; a failing call ends the iteration
V4CloseOlderPR ==
  /\ v4Pc = "closing"
  /\ v4Idx <= Len(OlderPRs(v4Prs))
  /\ LET pr == OlderPRs(v4Prs)[v4Idx]
     IN  \E commented, closed \in BOOLEAN :
           v4Calls' = v4Calls
                        \o <<Call("comment", pr.number, commented)>>
                        \o (IF commented THEN <<Call("close", pr.number, closed)>>
                                         ELSE << >>)
  /\ v4Idx' = v4Idx + 1
  /\ UNCHANGED <<v4Pc, v4Args, v4Repo, v4PrNumbers, v4Prs, v4Rec, v4Plan, v4Report,
                 v4Exit, v4Out>>
  /\ UNCHANGED NotV4

\* executeKeepLatestStrategy, lines 785-799
V4ApproveLatestPR ==
  /\ v4Pc = "closing"
  /\ v4Idx > Len(OlderPRs(v4Prs))
  /\ \E approved \in BOOLEAN :
       v4Calls' = Append(v4Calls, Call("approve", LatestPR(v4Prs).number, approved))
  /\ v4Pc' = "done"
  /\ v4Exit' = <<0>>
  /\ UNCHANGED <<v4Args, v4Repo, v4PrNumbers, v4Prs, v4Rec, v4Plan, v4Report,
                 v4Idx, v4Out>>
  /\ UNCHANGED NotV4

V4Next ==
  \/ V4Authenticate
  \/ V4GetPRNumbersFromArgs
  \/ V4GetPRNumbersFromPrompt
  \/ V4FetchPRs
  \/ V4SelectStrategy
  \/ V4ProcessStrategy
  \/ V4SaveReport
  \/ V4ExecuteFlag
  \/ V4ExecutePrompt
  \/ V4CloseOlderPR
  \/ V4ApproveLatestPR

(***************************************************************************)
(* pr-consolidator-v4.ts: processRollingUpStrategy on a list of PRs        *)
(***************************************************************************)
MaxRollUpPRs == 3
MaxRollUpDay == 3

\* The PRs main hands over, in the order of --prs (a number may be given
\* twice); PR numbers are handed out in creation order.  Of a PR the
\* function reads the number and createdAt.
RollUpStart ==
  /\ ruPc = "input"
  /\ \E createdAt \in { c \in [1..MaxRollUpPRs -> 1..MaxRollUpDay] :
                           \A n, m \in 1..MaxRollUpPRs : n < m => c[n] <= c[m] },
        prNumbers \in SeqsUpTo(1..MaxRollUpPRs, MaxRollUpPRs) :
       ruPrs = [i \in 1..Len(prNumbers) |->
                  [number |-> prNumbers[i], createdAt |-> createdAt[prNumbers[i]]]]
  /\ ruPlan = NoPlan

RollUpIdle ==
  /\ ruPc = "idle"
  /\ ruPrs = << >>
  /\ ruPlan = NoPlan

\* main, lines 212-216: processRollingUpStrategy returns the plan
RollUpProcess ==
  /\ ruPc = "input"
  /\ ~ProcessingThrows("rolling-up", ruPrs)
  /\ ruPlan' = ImplementationPlan("rolling-up", ruPrs)
  /\ ruPc' = "planned"
  /\ UNCHANGED ruPrs
  /\ UNCHANGED NotRollUp

\* processRollingUpStrategy, lines 487-488: basePR is undefined for an empty
\* list and basePR.number throws
RollUpThrows ==
  /\ ruPc = "input"
  /\ ProcessingThrows("rolling-up", ruPrs)
  /\ ruPc' = "thrown"
  /\ UNCHANGED <<ruPrs, ruPlan>>
  /\ UNCHANGED NotRollUp

RollUpNext == RollUpProcess \/ RollUpThrows

(***************************************************************************)
(* pr-consolidator-enhanced.ts                                             *)
(*                                                                         *)
(* A patch is its sequence of lines; a line is its first character and the *)
(* hunk header `@@ -a,b +start,count @@` its text contains, as             *)
(* <<start, count>>, or << >> when it contains none.  A file without patch *)
(* (a binary file) has the patch << >>.                                    *)
(***************************************************************************)
MaxEnhPRs == 2

PatchLine(first, hunk) == [first |-> first, hunk |-> hunk]

\* An ordinary patch, and the patch of a file that quotes a hunk header in
\* an added line (a diff pasted into a document)
PlainPatch == <<PatchLine("@", <<1, 2>>), PatchLine("+", << >>)>>
QuotingPatch == <<PatchLine("@", <<1, 2>>), PatchLine("+", <<1, 2>>)>>

PRFile(path, patch) == [path |-> path, patch |-> patch]

\* The files a PR of the repository may change
EnhFileLists ==
  { <<PRFile("README.md", PlainPatch)>>,
    <<PRFile("README.md", QuotingPatch)>>,
    <<PRFile("README.md", QuotingPatch), PRFile("package.json", PlainPatch)>>,
    <<PRFile("package.json", << >>)>>,
    <<PRFile("README.md", PlainPatch), PRFile("package.json", PlainPatch)>> }

\* A title `<words> (#<issue>)`; the normalisation of main, lines 519-522,
\* drops everything but the letters and lower-cases them
NormalizedTitle(title) == title.words

EnhRepos ==
  { repo \in [1..MaxEnhPRs -> [createdAt : 1..MaxDay,
                               title : [words : {"fix login", "update deps"}, issue : {0}],
                               files : EnhFileLists]] :
      \A n, m \in 1..MaxEnhPRs : n < m => repo[n].createdAt <= repo[m].createdAt }

\* getPRDetails: the PR, or null (here << >>) when it cannot be fetched
getPRDetails(repo, prNumber) ==
  IF prNumber \in DOMAIN repo
    THEN <<[number |-> prNumber, title |-> repo[prNumber].title,
            createdAt |-> repo[prNumber].createdAt, files |-> repo[prNumber].files]>>
    ELSE << >>

\* extractChangedLineNumbers: the lines of the hunk headers found in the
\* patch lines that start with + or -
RECURSIVE extractChangedLineNumbers(_)
extractChangedLineNumbers(patch) ==
  IF patch = << >> THEN << >>
  ELSE LET line == Head(patch)
       IN  (IF line.first \in {"+", "-"} /\ line.hunk # << >>
              THEN [i \in 1..line.hunk[2] |-> line.hunk[1] + i - 1]
              ELSE << >>)
           \o extractChangedLineNumbers(Tail(patch))

PathsOf(pr) == Distinct([i \in 1..Len(pr.files) |-> pr.files[i].path])

FileAt(pr, path) == pr.files[CHOOSE i \in 1..Len(pr.files) : pr.files[i].path = path]

\* HIGH_RISK_PATTERNS, matched by file.includes(pattern)
IsHighRiskPath(path) == path \in {"package.json"}

\* comparePRs
comparePRs(pr1, pr2) ==
  LET uniqueFiles == SelectSeq(PathsOf(pr2), LAMBDA f : ~Includes(PathsOf(pr1), f))
      commonFiles == SelectSeq(PathsOf(pr2), LAMBDA f : Includes(PathsOf(pr1), f))
      conflicts ==
        SelectSeq(commonFiles, LAMBDA f :
          /\ FileAt(pr1, f).patch # << >>
          /\ FileAt(pr2, f).patch # << >>
          /\ Range(extractChangedLineNumbers(FileAt(pr1, f).patch))
               \cap Range(extractChangedLineNumbers(FileAt(pr2, f).patch)) # {})
  IN  [prNumber |-> pr2.number,
       uniqueFiles |-> uniqueFiles,
       commonFiles |-> commonFiles,
       conflicts |-> conflicts,
       riskLevel |->
         IF Len(conflicts) > 0 THEN "High"
         ELSE IF Len(uniqueFiles) > 10 \/ Len(commonFiles) > 20 THEN "Medium"
         ELSE IF \E i \in 1..Len(uniqueFiles) : IsHighRiskPath(uniqueFiles[i]) THEN "Medium"
         ELSE "Low"]

\* main, lines 583-590: every pair (i, j), i < j, in order
CompareAll(prs) ==
  LET pairs == Flatten([i \in 1..Len(prs) |-> [j \in 1..Len(prs) |-> <<i, j>>]])
      ordered == SelectSeq(pairs, LAMBDA p : p[1] < p[2])
  IN  [k \in 1..Len(ordered) |-> comparePRs(prs[ordered[k][1]], prs[ordered[k][2]])]

NumbersOf(prs) == [i \in 1..Len(prs) |-> prs[i].number]

\* generateRecommendation (prs holds at least two PRs)
generateRecommendation(prs, analyses) ==
  LET sortedPRs == SortedNewestFirst(prs)
      risky == \E a \in 1..Len(analyses) :
                 analyses[a].riskLevel = "High" \/ Len(analyses[a].conflicts) > 0
      completelyContained ==
        \E a \in 1..Len(analyses) :
          Len(analyses[a].uniqueFiles) = 0 /\ Len(analyses[a].commonFiles) > 0
      mostComprehensive ==
        SortedBy(prs, [i \in 1..Len(prs) |-> 0 - Len(prs[i].files)])[1]
  IN  IF completelyContained
        THEN [recommendedPR |-> mostComprehensive.number,
              otherPRs |-> SelectSeq(NumbersOf(prs),
                                     LAMBDA n : n # mostComprehensive.number),
              strategy |-> "keep-latest"]
        ELSE [recommendedPR |-> sortedPRs[1].number,
              otherPRs |-> NumbersOf(Slice(sortedPRs, 1, Len(sortedPRs))),
              strategy |-> IF risky THEN "manual-review" ELSE "keep-latest"]

NoEnhRecommendation == [recommendedPR |-> 0, otherPRs |-> << >>, strategy |-> "none"]

\* main, lines 514-533: the open PRs, newest first, grouped by normalised
\* title; the groups of several PRs, in order of first appearance
MultiPRGroups(repo) ==
  LET listed == SortedNewestFirst([n \in 1..MaxEnhPRs |->
                                     getPRDetails(repo, MaxEnhPRs + 1 - n)[1]])
      titles == Distinct([i \in 1..Len(listed) |-> NormalizedTitle(listed[i].title)])
      group(t) == SelectSeq(listed, LAMBDA pr : NormalizedTitle(pr.title) = t)
      groups == [g \in 1..Len(titles) |-> NumbersOf(group(titles[g]))]
  IN  SelectSeq(groups, LAMBDA g : Len(g) > 1)

EnhStart ==
  /\ enhPc = "start"
  /\ enhArgs \in SeqsUpTo((1..MaxEnhPRs) \cup {MissingPR}, MaxEnhPRs)
  /\ enhRepo \in EnhRepos
  /\ enhPrs = << >>
  /\ enhAnalyses = << >>
  /\ enhRec = NoEnhRecommendation
  /\ enhReport = << >>
  /\ enhCalls = << >>
  /\ enhIdx = 0

EnhIdle ==
  /\ enhPc = "idle"
  /\ enhArgs = << >>
  /\ enhRepo = << >>
  /\ enhPrs = << >>
  /\ enhAnalyses = << >>
  /\ enhRec = NoEnhRecommendation
  /\ enhReport = << >>
  /\ enhCalls = << >>
  /\ enhIdx = 0

\* main, lines 568-604, for the PR numbers of lines 499-565: the PRs are
\* fetched, compared pairwise, and the recommendation is reported
Analyze(prNumbers) ==
  LET prs == Flatten([i \in 1..Len(prNumbers) |-> getPRDetails(enhRepo, prNumbers[i])])
  IN  /\ enhPrs' = prs
      /\ IF Len(prs) < 2
           THEN /\ enhPc' = "done"
                /\ UNCHANGED <<enhAnalyses, enhRec, enhReport, enhIdx>>
           ELSE /\ enhAnalyses' = CompareAll(prs)
                /\ enhRec' = generateRecommendation(prs, CompareAll(prs))
                /\ enhReport' = Append(enhReport,
                                       generateRecommendation(prs, CompareAll(prs)))
                /\ IF generateRecommendation(prs, CompareAll(prs)).strategy
                        \in {"keep-latest", "keep-oldest"}
                     THEN \E execute \in BOOLEAN :
                            /\ enhPc' = IF execute THEN "closing" ELSE "done"
                            /\ enhIdx' = IF execute THEN 1 ELSE 0
                     ELSE enhPc' = "done" /\ UNCHANGED enhIdx
      /\ UNCHANGED <<enhArgs, enhRepo, enhCalls>>
      /\ UNCHANGED NotEnh

\* main with PR numbers on the command line (lines 499-502)
EnhAnalyzeArgs ==
  /\ enhPc = "start"
  /\ Len(enhArgs) > 0
  /\ Analyze(enhArgs)

\* main without arguments (lines 503-565): the user picks a group of PRs
\* with the same normalised title
EnhAnalyzeGroup ==
  /\ enhPc = "start"
  /\ Len(enhArgs) = 0
  /\ IF Len(MultiPRGroups(enhRepo)) = 0
       THEN /\ enhPc' = "done"
            /\ UNCHANGED <<enhArgs, enhRepo, enhPrs, enhAnalyses, enhRec, enhReport,
                           enhCalls, enhIdx>>
            /\ UNCHANGED NotEnh
       ELSE \E groupIndex \in 1..Len(MultiPRGroups(enhRepo)) :
              Analyze(MultiPRGroups(enhRepo)[groupIndex])

\* main, lines 619-634: one other PR is closed and then commented; a failing
\* call is thrown to the catch of main
EnhClosePR ==
  /\ enhPc = "closing"
  /\ enhIdx <= Len(enhRec.otherPRs)
  /\ \E closed, commented \in BOOLEAN :
       /\ enhCalls' = enhCalls
                        \o <<Call("close", enhRec.otherPRs[enhIdx], closed)>>
                        \o (IF closed
                              THEN <<Call("comment", enhRec.otherPRs[enhIdx], commented)>>
                              ELSE << >>)
       /\ IF closed /\ commented
            THEN enhIdx' = enhIdx + 1 /\ UNCHANGED enhPc
            ELSE enhPc' = "done" /\ UNCHANGED enhIdx
  /\ UNCHANGED <<enhArgs, enhRepo, enhPrs, enhAnalyses, enhRec, enhReport>>
  /\ UNCHANGED NotEnh

\* main, lines 637-646
EnhApprove ==
  /\ enhPc = "closing"
  /\ enhIdx > Len(enhRec.otherPRs)
  /\ \E approved \in BOOLEAN :
       enhCalls' = Append(enhCalls, Call("approve", enhRec.recommendedPR, approved))
  /\ enhPc' = "done"
  /\ UNCHANGED <<enhArgs, enhRepo, enhPrs, enhAnalyses, enhRec, enhReport, enhIdx>>
  /\ UNCHANGED NotEnh

EnhNext == EnhAnalyzeArgs \/ EnhAnalyzeGroup \/ EnhClosePR \/ EnhApprove

(***************************************************************************)
(* pr-consolidator.ts                                                      *)
(*                                                                         *)
(* A title is a topic and a revision, `<topic> v<rev>`; GITHUB_TOKEN is    *)
(* set.  git and gh commands succeed or fail as the environment decides.   *)
(***************************************************************************)
MaxConsPRs == 3

ConsTitles ==
  { [topic |-> "Fix login", rev |-> 1],
    [topic |-> "Mobile Optimization", rev |-> 1],
    [topic |-> "Mobile Optimization", rev |-> 2] }

\* pr.title.includes('Mobile Optimization')
IsMobileOptimization(title) == title.topic = "Mobile Optimization"

ConsRepos ==
  { repo \in [1..MaxConsPRs -> [title : ConsTitles, createdAt : 1..MaxDay]] :
      \A n, m \in 1..MaxConsPRs : n < m => repo[n].createdAt <= repo[m].createdAt }

\* octokit.pulls.list, state open: newest first
ListPullRequests(repo) ==
  SortedNewestFirst([i \in 1..MaxConsPRs |->
    [number |-> MaxConsPRs + 1 - i,
     title |-> repo[MaxConsPRs + 1 - i].title,
     createdAt |-> repo[MaxConsPRs + 1 - i].createdAt]])

\* main, lines 104-116: the groups of several PRs with the same title
DuplicateGroups(pullRequests) ==
  LET titles == Distinct([i \in 1..Len(pullRequests) |-> pullRequests[i].title])
      groups == [g \in 1..Len(titles) |->
                   SelectSeq(pullRequests, LAMBDA pr : pr.title = titles[g])]
  IN  SelectSeq(groups, LAMBDA g : Len(g) > 1)

\* A sort that puts the oldest PR first whatever the strategy
KeepSortedOldestAlways(prs, strategy) == SortedOldestFirst(prs)

\* main, lines 326-330: oldest first for keep_oldest, newest first otherwise
KeepSorted(prs, strategy) ==
  IF strategy = "keep_oldest" THEN SortedOldestFirst(prs) ELSE SortedNewestFirst(prs)

\* The PRs the close loop of the strategy goes through
PRsToClose(group, strategy) ==
  IF strategy \in {"keep_oldest", "keep_newest"}
    THEN Slice(KeepSorted(group, strategy), 1, Len(group))
    ELSE group

\* The comment `gh pr close` leaves on a PR closed under the strategy
CloseComment(strategy) ==
  CASE strategy = "new_branch" ->
         "This PR has been consolidated into the new PR. Original changes preserved."
    [] strategy = "mobile" ->
         "This PR has been consolidated into a new PR. Original changes preserved."
    [] OTHER ->
         "This PR has been consolidated with #keepPR. Please refer to that PR for further discussion."

CloseCall(pr, comment, ok) == [pr |-> pr, comment |-> comment, ok |-> ok]

ConsStart ==
  /\ consPc = "start"
  /\ consRepo \in ConsRepos
  /\ consGroup = << >>
  /\ consStrategy = "none"
  /\ consKeep = 0
  /\ consConfirm = "unasked"
  /\ consIdx = 0
  /\ consMerged = {}
  /\ consCalls = << >>

ConsIdle ==
  /\ consPc = "idle"
  /\ consRepo = << >>
  /\ consGroup = << >>
  /\ consStrategy = "none"
  /\ consKeep = 0
  /\ consConfirm = "unasked"
  /\ consIdx = 0
  /\ consMerged = {}
  /\ consCalls = << >>

\* main, lines 168-197 (and 416-440): the new branch is created from the
\* fetched base branch, or the script returns
StartBranch(group, strategy) ==
  /\ consGroup' = group
  /\ consStrategy' = strategy
  /\ \E fetched, created \in BOOLEAN :
       IF fetched /\ created
         THEN consPc' = "merging" /\ consIdx' = 1
         ELSE consPc' = "done" /\ UNCHANGED consIdx
  /\ UNCHANGED <<consRepo, consKeep, consConfirm, consMerged, consCalls>>
  /\ UNCHANGED NotCons

\* main, lines 83-197: a group of PRs with identical titles, strategy new_branch
ConsChooseNewBranch ==
  /\ consPc = "start"
  /\ \E groupIndex \in 1..Len(DuplicateGroups(ListPullRequests(consRepo))) :
       StartBranch(DuplicateGroups(ListPullRequests(consRepo))[groupIndex], "new_branch")

\* main, lines 83-166 and 324-350: strategy keep_oldest or keep_newest, up
\* to the answer to "Do you want to proceed with this action?"
ConsChooseKeep ==
  /\ consPc = "start"
  /\ \E groupIndex \in 1..Len(DuplicateGroups(ListPullRequests(consRepo))),
        strategy \in {"keep_oldest", "keep_newest"}, confirm \in BOOLEAN :
       LET group == DuplicateGroups(ListPullRequests(consRepo))[groupIndex]
       IN  /\ consGroup' = group
           /\ consStrategy' = strategy
           /\ consKeep' = KeepSorted(group, strategy)[1].number
           /\ consConfirm' = IF confirm THEN "yes" ELSE "no"
           /\ IF confirm
                THEN consPc' = "closing" /\ consIdx' = 1
                ELSE consPc' = "done" /\ UNCHANGED consIdx
  /\ UNCHANGED <<consRepo, consMerged, consCalls>>
  /\ UNCHANGED NotCons

\* main, lines 373-440: no identical titles; the Mobile Optimization PRs are
\* offered in a checkbox, and the ones the user selects, at least two of
\* them, are consolidated on a new branch
ConsChooseMobile ==
  /\ consPc = "start"
  /\ Len(DuplicateGroups(ListPullRequests(consRepo))) = 0
  /\ LET mobileOptPRs == SelectSeq(ListPullRequests(consRepo),
                                   LAMBDA pr : IsMobileOptimization(pr.title))
     IN  \E shouldConsolidate \in BOOLEAN,
            selected \in SUBSET { mobileOptPRs[i].number : i \in 1..Len(mobileOptPRs) } :
           IF /\ Len(mobileOptPRs) > 0
              /\ shouldConsolidate
              /\ Cardinality(selected) >= 2
             THEN StartBranch(SelectSeq(mobileOptPRs, LAMBDA pr : pr.number \in selected),
                              "mobile")
             ELSE /\ consPc' = "done"
                  /\ UNCHANGED <<consRepo, consGroup, consStrategy, consKeep, consConfirm,
                                 consIdx, consMerged, consCalls>>
                  /\ UNCHANGED NotCons

\* main, lines 200-250 (and 443-493): one PR branch is fetched and merged
ConsMergePR ==
  /\ consPc = "merging"
  /\ consIdx <= Len(consGroup)
  /\ \E outcome \in {"fetch-failed", "merged", "conflict-exit", "conflict-abort",
                     "conflict-skip"} :
       /\ consMerged' = IF outcome = "merged"
                          THEN consMerged \cup {consGroup[consIdx].number}
                          ELSE consMerged
       /\ IF outcome \in {"conflict-exit", "conflict-abort"}
            THEN consPc' = "done" /\ UNCHANGED consIdx
            ELSE consIdx' = consIdx + 1 /\ UNCHANGED consPc
  /\ UNCHANGED <<consRepo, consGroup, consStrategy, consKeep, consConfirm, consCalls>>
  /\ UNCHANGED NotCons

\* main, lines 252-303 (and 495-546): the branch is pushed, the consolidated
\* PR created, and the user asked whether to close the original PRs
ConsCreatePR ==
  /\ consPc = "merging"
  /\ consIdx > Len(consGroup)
  /\ \E pushed, created, shouldClose \in BOOLEAN :
       IF pushed /\ created /\ shouldClose
         THEN consPc' = "closing" /\ consIdx' = 1
         ELSE consPc' = "done" /\ UNCHANGED consIdx
  /\ UNCHANGED <<consRepo, consGroup, consStrategy, consKeep, consConfirm, consMerged,
                 consCalls>>
  /\ UNCHANGED NotCons

\* main, lines 305-321, 352-367 (and 548-565): `gh pr close` on one PR
ConsClosePR ==
  /\ consPc = "closing"
  /\ consIdx <= Len(PRsToClose(consGroup, consStrategy))
  /\ \E ok \in BOOLEAN :
       consCalls' = Append(consCalls,
                           CloseCall(PRsToClose(consGroup, consStrategy)[consIdx].number,
                                     CloseComment(consStrategy), ok))
  /\ consIdx' = consIdx + 1
  /\ consPc' = IF consIdx = Len(PRsToClose(consGroup, consStrategy))
                 THEN "done" ELSE "closing"
  /\ UNCHANGED <<consRepo, consGroup, consStrategy, consKeep, consConfirm, consMerged>>
  /\ UNCHANGED NotCons

ConsNext ==
  \/ ConsChooseNewBranch
  \/ ConsChooseKeep
  \/ ConsChooseMobile
  \/ ConsMergePR
  \/ ConsCreatePR
  \/ ConsClosePR

(***************************************************************************)
(* webhook-server.ts                                                       *)
(*                                                                         *)
(* An HMAC signature header is the key and the payload it was computed     *)
(* from and its length in bytes; two well-formed signatures are equal      *)
(* exactly when key and payload are.  A header that is absent or empty is  *)
(* << >>.  A body is text that is not JSON, or a JSON object with or       *)
(* without the fields of a pull_request payload.                           *)
(***************************************************************************)
MaxRequests == 2

Sign(key, payload) == [key |-> key, payload |-> payload, length |-> 71]

Bodies ==
  { [json |-> FALSE, payload |-> << >>], [json |-> TRUE, payload |-> << >>] }
    \cup { [json |-> TRUE, payload |-> <<[action |-> a, base |-> b, number |-> 1]>>] :
             a \in {"opened", "synchronize", "reopened", "closed"},
             b \in {"main", "develop"} }

SignatureHeaders(body) ==
  { << >>, <<Sign("s3cret", body)>>, <<Sign("wrong", body)>>,
    <<[key |-> "wrong", payload |-> body, length |-> 10]>> }

\* The requests, one or more for every case the handler tells apart:
\*  - pull_request events with any body, unsigned or signed with the secret;
\*  - other events (their body is not read), unsigned or signed;
\*  - requests with a wrong signature (with a secret configured neither
\*    their event nor their body is read), carrying a reviewable event;
\*  - one request for each other method and route.
Requests ==
  LET reviewable == [json |-> TRUE,
                     payload |-> <<[action |-> "opened", base |-> "main", number |-> 1]>>]
      accepted(body) == { h \in SignatureHeaders(body) : h = << >> \/ h[1].key = "s3cret" }
      webhook(signature, event, body) ==
        [method |-> "POST", url |-> "/webhook", signature |-> signature,
         event |-> event, body |-> body]
  IN  { webhook(r[2], "pull_request", r[1]) :
          r \in UNION { {body} \X accepted(body) : body \in Bodies } }
        \cup { webhook(h, "push", reviewable) : h \in accepted(reviewable) }
        \cup { webhook(h, "pull_request", reviewable) :
                 h \in SignatureHeaders(reviewable) \ accepted(reviewable) }
        \cup { [method |-> p[1], url |-> p[2], signature |-> << >>, event |-> "",
                body |-> [json |-> FALSE, payload |-> << >>]] :
                 p \in ({"GET", "POST"} \X {"/health", "/webhook", "/other"})
                         \ {<<"POST", "/webhook">>} }

\* crypto.timingSafeEqual throws a RangeError on buffers of different length
VerifyThrows(secret, payload, signature) ==
  secret # "" /\ signature.length # Sign(secret, payload).length

\* verifySignature, when it returns
verifySignature(secret, payload, signature) ==
  IF secret = "" THEN TRUE ELSE signature = Sign(secret, payload)

Response(status, text) == [status |-> status, text |-> text]

\* A handler that reviews opened, synchronize and reopened PRs whatever
\* their base branch
TriggersReviewOnAnyBase(payload) ==
  payload.action \in {"opened", "synchronize", "reopened"}

\* handlePREvent: the review runs for opened, synchronize and reopened PRs
\* whose base is main
TriggersReview(payload) ==
  payload.action \in {"opened", "synchronize", "reopened"} /\ payload.base = "main"

\* What the request handler (lines 94-106) or the 'end' callback of a POST
\* to /webhook (lines 114-148) does with the request, up to the point where
\* it returns, throws or waits for the review process: the responses
\* written, the PR whose review is started, and whether it ends in an
\* exception nobody catches
Handle(secret, req) ==
  LET outcome(responses, review, uncaught) ==
        [responses |-> responses, review |-> review, uncaught |-> uncaught]
  IN  IF req.method = "GET" /\ req.url = "/health"
        THEN outcome(<<Response(200, "healthy")>>, << >>, FALSE)
      ELSE IF req.method # "POST" \/ req.url # "/webhook"
        THEN outcome(<<Response(404, "Not found")>>, << >>, FALSE)
      ELSE IF req.signature # << >> /\ VerifyThrows(secret, req.body, req.signature[1])
        THEN outcome(<< >>, << >>, TRUE)
      ELSE IF req.signature # << >> /\ ~verifySignature(secret, req.body, req.signature[1])
        THEN outcome(<<Response(401, "Invalid signature")>>, << >>, FALSE)
      ELSE IF req.event # "pull_request"
        THEN outcome(<<Response(200, "OK - ignored")>>, << >>, FALSE)
      ELSE IF ~req.body.json
        THEN outcome(<<Response(500, "Error processing webhook")>>, << >>, FALSE)
      ELSE IF req.body.payload = << >>
        THEN outcome(<<Response(200, "OK - processing")>>, << >>, TRUE)
      ELSE outcome(<<Response(200, "OK - processing")>>,
                   IF TriggersReview(req.body.payload[1])
                     THEN <<req.body.payload[1].number>> ELSE << >>,
                   FALSE)

HookStart ==
  /\ hookSecret \in {"", "s3cret"}
  /\ hookUp = TRUE
  /\ hookReqs = << >>
  /\ hookStage = << >>
  /\ hookResponses = << >>
  /\ hookReviews = << >>

HookIdle ==
  /\ hookSecret = ""
  /\ hookUp = FALSE
  /\ hookReqs = << >>
  /\ hookStage = << >>
  /\ hookResponses = << >>
  /\ hookReviews = << >>

\* A request arrives: it is request number Len(hookReqs) + 1
Arrives(req, stage, responses) ==
  /\ hookUp
  /\ Len(hookReqs) < MaxRequests
  /\ hookReqs' = Append(hookReqs, req)
  /\ hookStage' = Append(hookStage, stage)
  /\ hookResponses' = Append(hookResponses, responses)
  /\ hookReviews' = Append(hookReviews, << >>)
  /\ UNCHANGED <<hookSecret, hookUp>>
  /\ UNCHANGED NotHook

\* createServer callback, lines 94-106: the health check and the routes that
\* do not exist are answered at once
HookOtherRoute ==
  \E req \in Requests :
    /\ req.method # "POST" \/ req.url # "/webhook"
    /\ Arrives(req, "finished", Handle(hookSecret, req).responses)

\* createServer callback, lines 108-114, for a POST to /webhook: the
\* listeners are registered and the callback returns; the body arrives later
HookReceive ==
  \E req \in Requests :
    /\ req.method = "POST" /\ req.url = "/webhook"
    /\ Arrives(req, "receiving", << >>)

\* The 'end' callback of request i runs until it returns, throws or waits
\* for the review process.  Whether an uncaught exception in the async
\* callback ends the process depends on the Node.js version.
EndCallback(i) ==
  LET outcome == Handle(hookSecret, hookReqs[i])
  IN  /\ hookUp
      /\ hookStage[i] = "receiving"
      /\ hookResponses' = [hookResponses EXCEPT ![i] = outcome.responses]
      /\ hookReviews' = [hookReviews EXCEPT ![i] = outcome.review]
      /\ hookStage' = [hookStage EXCEPT ![i] =
                         IF outcome.uncaught THEN "threw"
                         ELSE IF outcome.review # << >> THEN "reviewing"
                         ELSE "finished"]
      /\ IF outcome.uncaught
           THEN hookUp' \in BOOLEAN
           ELSE UNCHANGED hookUp
      /\ UNCHANGED <<hookSecret, hookReqs>>
      /\ UNCHANGED NotHook

\* 'end' callback, lines 114-122: the signature check throws or answers 401
HookSignatureRefused ==
  \E i \in 1..Len(hookReqs) :
    /\ Handle(hookSecret, hookReqs[i]).responses
         \in {<< >>, <<Response(401, "Invalid signature")>>}
    /\ EndCallback(i)

\* 'end' callback, lines 124-148: the event is ignored or processed; the
\* callback of a request that starts a review waits for the review process
HookEvent ==
  \E i \in 1..Len(hookReqs) :
    /\ Handle(hookSecret, hookReqs[i]).responses
         \notin {<< >>, <<Response(401, "Invalid signature")>>}
    /\ EndCallback(i)

\* handlePREvent, lines 74-90: the review process has ended, well or not;
\* the 'end' callback of request i finishes
HookReviewDone ==
  \E i \in 1..Len(hookReqs) :
    /\ hookUp
    /\ hookStage[i] = "reviewing"
    /\ hookStage' = [hookStage EXCEPT ![i] = "finished"]
    /\ UNCHANGED <<hookSecret, hookUp, hookReqs, hookResponses, hookReviews>>
    /\ UNCHANGED NotHook

HookNext ==
  \/ HookOtherRoute
  \/ HookReceive
  \/ HookSignatureRefused
  \/ HookEvent
  \/ HookReviewDone

(***************************************************************************)
(* analyzers/main-branch-analyzer.ts: detectPotentialMergeConflicts        *)
(*                                                                         *)
(* executeGitCommand(args) is spawnSync('git', args): git receives the     *)
(* arguments as they are, without a shell.  The working repository is the  *)
(* merge it has in progress, if any (MERGE_HEAD), its unmerged paths, and  *)
(* the files of the last commits of the base branch.                       *)
(***************************************************************************)
\* The paths, in the order git lists them (by path, as in the index)
RepoPaths == <<"README.md", "app/api/route.ts", "package.json">>

\* The paths of RepoPaths that are in the set S, in order (one per line of stdout)
PathList(S) == SelectSeq(RepoPaths, LAMBDA f : f \in S)

GitResult(success, stdout, repo) == [success |-> success, stdout |-> stdout, repo |-> repo]

\* What git does with the arguments args in the repository repo:
\*  - `checkout` given an option it does not know (--no-commit) prints its
\*    usage and exits with status 129;
\*  - `diff --name-only --diff-filter=U` lists the unmerged paths;
\*  - `merge --abort` ends the merge in progress, and fails without one;
\*  - `log` lists the files of the base branch, when it knows the branch.
runGit(repo, args) ==
  CASE args[1] = "checkout" ->
         GitResult(~Includes(args, "--no-commit"), << >>, repo)
    [] args[1] = "diff" ->
         GitResult(TRUE, PathList(repo.unmerged), repo)
    [] args = <<"merge", "--abort">> ->
         IF repo.mergeHead # "none"
           THEN GitResult(TRUE, << >>, [repo EXCEPT !.mergeHead = "none", !.unmerged = {}])
           ELSE GitResult(FALSE, << >>, repo)
    [] args[1] = "log" ->
         GitResult(repo.logKnown, IF repo.logKnown THEN PathList(repo.baseFiles) ELSE << >>,
                   repo)
    [] OTHER -> GitResult(FALSE, << >>, repo)

\* The arguments of the test merge, lines 67-70
MergeTestArgs(baseBranch, headBranch) ==
  <<"checkout", baseBranch, "&&", "git", "merge", "--no-commit", "--no-ff", headBranch>>

\* detectPotentialMergeConflicts: the conflicts returned, the repository it
\* leaves and the git commands it ran
detectPotentialMergeConflicts(pr, repo) ==
  LET testArgs == MergeTestArgs(pr.baseRefName, pr.headRefName)
      mergeTest == runGit(repo, testArgs)
      conflictingFiles == runGit(mergeTest.repo, <<"diff", "--name-only", "--diff-filter=U">>)
      aborted == runGit(conflictingFiles.repo, <<"merge", "--abort">>)
      tested == IF mergeTest.success THEN mergeTest.repo ELSE aborted.repo
      direct == IF ~mergeTest.success /\ conflictingFiles.success
                  THEN conflictingFiles.stdout ELSE << >>
      logArgs == <<"log", "-n", "10", "--name-only", "--pretty=format:", pr.baseRefName>>
      baseChanges == runGit(tested, logArgs)
      overlapFiles == SelectSeq(pr.files, LAMBDA f : Includes(baseChanges.stdout, f))
  IN  [conflicts |-> IF Len(direct) = 0 /\ baseChanges.success
                       THEN direct \o overlapFiles ELSE direct,
       repo |-> IF Len(direct) = 0 THEN baseChanges.repo ELSE tested,
       commands |-> <<testArgs>>
                    \o (IF mergeTest.success THEN << >>
                        ELSE <<<<"diff", "--name-only", "--diff-filter=U">>,
                               <<"merge", "--abort">>>>)
                    \o (IF Len(direct) = 0 THEN <<logArgs>> ELSE << >>)]

\* The repositories the analysis may be run in
MbaRepos ==
  { repo \in [mergeHead : {"none", "MERGE_HEAD"}, unmerged : SUBSET Range(RepoPaths),
              logKnown : BOOLEAN, baseFiles : SUBSET Range(RepoPaths)] :
      repo.mergeHead = "none" => repo.unmerged = {} }

MbaStart ==
  /\ mbaPc = "start"
  /\ mbaRepo \in MbaRepos
  /\ mbaPr \in [baseRefName : {"main"}, headRefName : {"feature"},
                files : {PathList(S) : S \in SUBSET Range(RepoPaths)}]
  /\ mbaConflicts = << >>
  /\ mbaCommands = << >>

MbaIdle ==
  /\ mbaPc = "idle"
  /\ mbaRepo = [mergeHead |-> "none", unmerged |-> {}, logKnown |-> FALSE, baseFiles |-> {}]
  /\ mbaPr = [baseRefName |-> "main", headRefName |-> "feature", files |-> << >>]
  /\ mbaConflicts = << >>
  /\ mbaCommands = << >>

\* analyzeMainBranchRisks, line 37
MbaDetect ==
  /\ mbaPc = "start"
  /\ mbaConflicts' = detectPotentialMergeConflicts(mbaPr, mbaRepo).conflicts
  /\ mbaRepo' = detectPotentialMergeConflicts(mbaPr, mbaRepo).repo
  /\ mbaCommands' = detectPotentialMergeConflicts(mbaPr, mbaRepo).commands
  /\ mbaPc' = "done"
  /\ UNCHANGED mbaPr
  /\ UNCHANGED NotMba

MbaNext == MbaDetect

(***************************************************************************)
(* utils: formatDateCST and saveReport, as autoReviewPR uses them.         *)
(*                                                                         *)
(* A string is the sequence of its characters, an instant is the wall      *)
(* clock time in America/Chicago, and the output directory is a function   *)
(* from file names to file contents.                                       *)
(***************************************************************************)
MaxReports == 2

\* Intl.DateTimeFormat('en-US', 2-digit fields, hour12: false).format(date):
\* MM/DD/YYYY, HH:MM:SS
IntlFormat(t) ==
  Padded(t.month, 2) \o <<"/">> \o Padded(t.day, 2) \o <<"/">> \o Padded(t.year, 4)
    \o <<",", " ">>
    \o Padded(t.hour, 2) \o <<":">> \o Padded(t.minute, 2) \o <<":">> \o Padded(t.second, 2)

\* .replace(/[\/,:]/g, '-').replace(/\s/g, '_')
formatDateCST(t) ==
  LET formatted == IntlFormat(t)
  IN  [i \in 1..Len(formatted) |->
         IF formatted[i] \in {"/", ",", ":"} THEN "-"
         ELSE IF formatted[i] = " " THEN "_"
         ELSE formatted[i]]

\* filename.replace(/\d{2}-\d{2}-\d{4}_\d{2}-\d{2}-\d{2}/, 'latest'): the
\* leftmost match is replaced ("d" of TimestampPattern stands for \d)
ReplaceTimestamp(s) ==
  LET TimestampPattern ==
        <<"d", "d", "-", "d", "d", "-", "d", "d", "d", "d", "_",
          "d", "d", "-", "d", "d", "-", "d", "d">>
      MatchesAt(i) ==
        /\ i + Len(TimestampPattern) - 1 <= Len(s)
        /\ \A k \in 1..Len(TimestampPattern) :
             IF TimestampPattern[k] = "d" THEN Includes(DigitChars, s[i + k - 1])
             ELSE s[i + k - 1] = TimestampPattern[k]
  IN  IF \E i \in 1..Len(s) : MatchesAt(i)
        THEN LET i == CHOOSE j \in 1..Len(s) :
                        MatchesAt(j) /\ \A h \in 1..(j - 1) : ~MatchesAt(h)
             IN  Slice(s, 0, i - 1) \o <<"l", "a", "t", "e", "s", "t">>
                   \o Slice(s, i - 1 + Len(TimestampPattern), Len(s))
        ELSE s

\* `pr-auto-review-${prNumber}-${timestamp}.md`
ReportPrefix ==
  <<"p", "r", "-", "a", "u", "t", "o", "-", "r", "e", "v", "i", "e", "w", "-">>

ReportFilename(prNumber, timestamp) ==
  ReportPrefix \o Decimal(prNumber) \o <<"-">> \o timestamp \o <<".", "m", "d">>

\* saveReport(content, filename): the output directory after the two
\* fs.writeFileSync(path, content), the timestamped file and the latest one
saveReport(files, content, filename) ==
  LET WriteFile(dir, name) ==
        [n \in DOMAIN dir \cup {name} |-> IF n = name THEN content ELSE dir[n]]
  IN  WriteFile(WriteFile(files, filename), ReplaceTimestamp(filename))

\* The instants at which reports are saved, and their order
Instants ==
  [month : {10}, day : {30}, year : {2026}, hour : {9, 14, 23}, minute : {5},
   second : {7}]

SecondsOf(t) == ((t.day * 24 + t.hour) * 60 + t.minute) * 60 + t.second

\* No script that saves reports is running
RepIdle ==
  /\ repClock = [month |-> 10, day |-> 30, year |-> 2026, hour |-> 9, minute |-> 5,
                 second |-> 7]
  /\ repFiles = << >>
  /\ repSaved = << >>

(***************************************************************************)
(* pr-auto-reviewer.ts: main and autoReviewPR                              *)
(*                                                                         *)
(* A run is one start of the script with its argument.  The pull request   *)
(* is its number and the paths of its files; the three analyses are what   *)
(* the analyzers return for it: their overall risks and the lengths of the *)
(* lists that autoReviewPR tests.  The report is its pull request and the  *)
(* timestamp of its last line.  The output directory outlives the run.     *)
(***************************************************************************)
MaxFindings == 1

RiskLevels == {"Low", "Medium", "High"}

Analyses ==
  [mainBranchRisk : RiskLevels, raceConditionRisk : RiskLevels, dependencyRisk : RiskLevels,
   potentialMergeConflicts : 0..MaxFindings, databaseSchemaChanges : 0..MaxFindings,
   versionConflicts : 0..MaxFindings, missingPeerDependencies : 0..MaxFindings]

NoAnalyses ==
  [mainBranchRisk |-> "Low", raceConditionRisk |-> "Low", dependencyRisk |-> "Low",
   potentialMergeConflicts |-> 0, databaseSchemaChanges |-> 0,
   versionConflicts |-> 0, missingPeerDependencies |-> 0]

\* What getPRDetails can return for pull request n: the paths of its files
\* (PullRequest.files is optional: hasFiles is whether it is there)
PullRequests(n) ==
  LET docs == <<"d", "o", "c", "s", "/", "a", ".", "m", "d">>
      api == <<"a", "p", "p", "/", "a", "p", "i", "/", "r", ".", "t", "s">>
      server == <<"s", "r", "c", "/", "s", "e", "r", "v", "e", "r", "/", "d", ".", "t", "s">>
      pages == <<"s", "r", "c", "/", "p", "a", "g", "e", "s", "/", "i", ".", "j", "s">>
      page == <<"s", "r", "c", "/", "a", "p", "p", "/", "p", ".", "t", "s", "x">>
      util == <<"s", "r", "c", "/", "a", "p", "p", "/", "u", ".", "t", "s">>
  IN  { [number |-> n, hasFiles |-> FALSE, files |-> << >>] }
        \cup { [number |-> n, hasFiles |-> TRUE, files |-> f] :
                 f \in { << >>, <<docs>>, <<api>>, <<page>>, <<util>>, <<server, pages>> } }

NoPullRequest == [number |-> 0, hasFiles |-> FALSE, files |-> << >>]

ReadyIgnoringMergeConflicts(a) ==
  ~(\/ a.mainBranchRisk = "High"
    \/ a.raceConditionRisk = "High"
    \/ a.dependencyRisk = "High"
    \/ a.versionConflicts > 0
    \/ a.missingPeerDependencies > 0)

determineReviewReadiness(a) ==
  IF \/ a.mainBranchRisk = "High"
     \/ a.raceConditionRisk = "High"
     \/ a.dependencyRisk = "High"
     \/ a.versionConflicts > 0
     \/ a.missingPeerDependencies > 0
    THEN FALSE
  ELSE IF a.potentialMergeConflicts > 0 THEN FALSE
  ELSE TRUE

\* getRecommendedReviewers: the default reviewers and, when the pull request
\* has its list of files, the ones its paths and its risks add
getRecommendedReviewers(pr, a) ==
  LET path(i) == pr.files[i]
      \* String.prototype.includes and String.prototype.endsWith
      StrIncludes(s, sub) ==
        \E i \in 0..(Len(s) - Len(sub)) : \A k \in 1..Len(sub) : s[i + k] = sub[k]
      EndsWith(s, suffix) ==
        /\ Len(suffix) <= Len(s)
        /\ \A k \in 1..Len(suffix) : s[Len(s) - Len(suffix) + k] = suffix[k]
      hasBackendChanges ==
        \E i \in 1..Len(pr.files) :
          \/ StrIncludes(path(i), <<"/", "a", "p", "i", "/">>)
          \/ StrIncludes(path(i), <<"/", "s", "e", "r", "v", "i", "c", "e", "s", "/">>)
          \/ StrIncludes(path(i), <<"/", "s", "e", "r", "v", "e", "r", "/">>)
      hasFrontendChanges ==
        \E i \in 1..Len(pr.files) :
          \/ StrIncludes(path(i), <<"/", "c", "o", "m", "p", "o", "n", "e", "n", "t", "s", "/">>)
          \/ StrIncludes(path(i), <<"/", "p", "a", "g", "e", "s", "/">>)
          \/ /\ StrIncludes(path(i), <<"/", "a", "p", "p", "/">>)
             /\ \/ EndsWith(path(i), <<".", "t", "s", "x">>)
                \/ EndsWith(path(i), <<".", "j", "s", "x">>)
      hasDatabaseChanges == a.databaseSchemaChanges > 0
  IN  {"aire-team"}
        \cup (IF pr.hasFiles /\ hasBackendChanges THEN {"backend-team"} ELSE {})
        \cup (IF pr.hasFiles /\ hasFrontendChanges THEN {"frontend-team"} ELSE {})
        \cup (IF pr.hasFiles /\ hasDatabaseChanges THEN {"data-team"} ELSE {})
        \cup (IF pr.hasFiles /\ a.raceConditionRisk # "Low" THEN {"senior-dev"} ELSE {})
        \cup (IF pr.hasFiles /\ a.dependencyRisk # "Low" THEN {"devops-team"} ELSE {})

\* process.argv[2] as main reads it: the number of a pull request, or
\* nothing that parseInt turns into one
Argvs == { << >>, <<7>>, <<12>> }

\* The script is started on an output directory with no report; repClock is
\* the time of the last thing that happened
AutoStart ==
  /\ autoPc = "main"
  /\ autoArgv \in Argvs
  /\ autoPr = NoPullRequest
  /\ autoAnalyses = NoAnalyses
  /\ autoReady = FALSE
  /\ autoRequests = << >>
  /\ autoExit = << >>
  /\ repClock = [month |-> 10, day |-> 30, year |-> 2026, hour |-> 8, minute |-> 5,
                 second |-> 7]
  /\ repFiles = << >>
  /\ repSaved = << >>

AutoIdle ==
  /\ autoPc = "idle"
  /\ autoArgv = << >>
  /\ autoPr = NoPullRequest
  /\ autoAnalyses = NoAnalyses
  /\ autoReady = FALSE
  /\ autoRequests = << >>
  /\ autoExit = << >>

\* main: without the number of a pull request the run exits with 1
AutoMain ==
  /\ autoPc = "main"
  /\ autoPc' = IF autoArgv = << >> THEN "done" ELSE "start"
  /\ autoExit' = IF autoArgv = << >> THEN <<1>> ELSE << >>
  /\ UNCHANGED <<autoArgv, autoPr, autoAnalyses, autoReady, autoRequests>>
  /\ UNCHANGED repVars
  /\ UNCHANGED NotAuto

\* getPRDetails: the pull request is fetched, or the run exits with 1
AutoGetPRDetails ==
  /\ autoPc = "start"
  /\ \E fetched \in BOOLEAN, pr \in PullRequests(autoArgv[1]) :
       /\ autoPc' = IF fetched THEN "analyze" ELSE "done"
       /\ autoPr' = IF fetched THEN pr ELSE autoPr
       /\ autoExit' = IF fetched THEN << >> ELSE <<1>>
  /\ UNCHANGED <<autoArgv, autoAnalyses, autoReady, autoRequests>>
  /\ UNCHANGED repVars
  /\ UNCHANGED NotAuto

\* Lines 56-116: the three analyses, the readiness, and the report, which
\* saveReport writes under `pr-auto-review-${prNumber}-${timestamp}.md`
AutoAnalyze ==
  /\ autoPc = "analyze"
  /\ \E now \in Instants :
       /\ SecondsOf(now) > SecondsOf(repClock)
       /\ LET timestamp == formatDateCST(now)
              report == [prNumber |-> autoPr.number, generated |-> timestamp]
              filename == ReportFilename(autoArgv[1], timestamp)
          IN  /\ repFiles' = saveReport(repFiles, report, filename)
              /\ repSaved' = Append(repSaved, [filename |-> filename, content |-> report])
       /\ repClock' = now
  /\ \E a \in Analyses :
       /\ autoAnalyses' = a
       /\ autoReady' = determineReviewReadiness(a)
  /\ autoPc' = "review"
  /\ UNCHANGED <<autoArgv, autoPr, autoRequests, autoExit>>
  /\ UNCHANGED NotAuto

\* An analyzer throws (it could not fetch the pull request): exit with 1
AutoAnalysisThrows ==
  /\ autoPc = "analyze"
  /\ autoPc' = "done"
  /\ autoExit' = <<1>>
  /\ UNCHANGED <<autoArgv, autoPr, autoAnalyses, autoReady, autoRequests>>
  /\ UNCHANGED repVars
  /\ UNCHANGED NotAuto

\* Lines 118-125: request reviews if ready, then print the summary
AutoRequestReviews ==
  /\ autoPc = "review"
  /\ LET recommendedReviewers == getRecommendedReviewers(autoPr, autoAnalyses)
     IN  autoRequests' =
           IF autoReady /\ Cardinality(recommendedReviewers) > 0
             THEN Append(autoRequests, recommendedReviewers)
             ELSE autoRequests
  /\ autoPc' = "done"
  /\ UNCHANGED <<autoArgv, autoPr, autoAnalyses, autoReady, autoExit>>
  /\ UNCHANGED repVars
  /\ UNCHANGED NotAuto

\* The script is started again, on the output directory the runs before it
\* left, while there is a later instant for its report
AutoRunAgain ==
  /\ autoPc = "done"
  /\ Len(repSaved) < MaxReports
  /\ \E now \in Instants : SecondsOf(now) > SecondsOf(repClock)
  /\ autoPc' = "main"
  /\ autoArgv' \in Argvs
  /\ autoPr' = NoPullRequest
  /\ autoAnalyses' = NoAnalyses
  /\ autoReady' = FALSE
  /\ autoRequests' = << >>
  /\ autoExit' = << >>
  /\ UNCHANGED repVars
  /\ UNCHANGED NotAuto

AutoNext ==
  \/ AutoMain
  \/ AutoGetPRDetails
  \/ AutoAnalyze
  \/ AutoAnalysisThrows
  \/ AutoRequestReviews
  \/ AutoRunAgain

(***************************************************************************)
(* pr-analyzer.ts: the priority score of analyzePullRequest                *)
(*                                                                         *)
(* The pull request is its risk level, its age in hours and its title: the *)
(* conventional-commit prefix and whether it names Mobile Optimization.    *)
(***************************************************************************)
TitlePrefixes == {"fix:", "feat:", "docs:", "perf:", ""}

\* Ages on both sides of the two thresholds (2 days and 14 days)
AgesInHours == {0, 47, 48, 49, 336, 337}

UnclampedTripledScore(riskLevel, ageHours, prefix, mobile) ==
  50 + 3 * ((IF riskLevel = "High" THEN -20 ELSE 0)
            + (IF ageHours < 2 * 24 THEN -5 ELSE 0)
            + (IF prefix = "docs:" THEN -10 ELSE 0))

priorityScore(riskLevel, ageHours, prefix, mobile) ==
  LET risk == (IF riskLevel = "High" THEN -20 ELSE 0) + (IF riskLevel = "Low" THEN 10 ELSE 0)
      age == (IF ageHours > 14 * 24 THEN 15 ELSE 0) + (IF ageHours < 2 * 24 THEN -5 ELSE 0)
      changes == (IF prefix = "fix:" THEN 10 ELSE 0) + (IF prefix = "feat:" THEN 5 ELSE 0)
                   + (IF prefix = "docs:" THEN -10 ELSE 0)
      score == 50 + risk + age + changes + (IF mobile THEN 8 ELSE 0)
  IN  Min({Max({score, 1}), 100})

AnStart ==
  /\ anPc = "start"
  /\ anPr \in [riskLevel : RiskLevels, ageHours : AgesInHours, prefix : TitlePrefixes,
               mobile : BOOLEAN]
  /\ anScore = 0

AnIdle ==
  /\ anPc = "idle"
  /\ anPr = [riskLevel |-> "Low", ageHours |-> 0, prefix |-> "", mobile |-> FALSE]
  /\ anScore = 0

AnAnalyzePullRequest ==
  /\ anPc = "start"
  /\ anScore' = priorityScore(anPr.riskLevel, anPr.ageHours, anPr.prefix, anPr.mobile)
  /\ anPc' = "done"
  /\ UNCHANGED anPr
  /\ UNCHANGED NotAn

AnNext == AnAnalyzePullRequest

(***************************************************************************)
(* Specifications                                                          *)
(***************************************************************************)
InitMap ==
  /\ MapStart
  /\ SelIdle
  /\ V4Idle
  /\ RollUpIdle
  /\ EnhIdle
  /\ ConsIdle
  /\ HookIdle
  /\ MbaIdle
  /\ RepIdle
  /\ AutoIdle
  /\ AnIdle

SpecMap == InitMap /\ [][MapNext]_vars

InitGroups ==
  /\ GroupsStart
  /\ SelIdle
  /\ V4Idle
  /\ RollUpIdle
  /\ EnhIdle
  /\ ConsIdle
  /\ HookIdle
  /\ MbaIdle
  /\ RepIdle
  /\ AutoIdle
  /\ AnIdle

SpecGroups == InitGroups /\ [][MapNext]_vars

InitSel ==
  /\ SelStart
  /\ MapIdle
  /\ V4Idle
  /\ RollUpIdle
  /\ EnhIdle
  /\ ConsIdle
  /\ HookIdle
  /\ MbaIdle
  /\ RepIdle
  /\ AutoIdle
  /\ AnIdle

SpecSel == InitSel /\ [][SelNext]_vars

InitV4 ==
  /\ V4Start
  /\ MapIdle
  /\ SelIdle
  /\ RollUpIdle
  /\ EnhIdle
  /\ ConsIdle
  /\ HookIdle
  /\ MbaIdle
  /\ RepIdle
  /\ AutoIdle
  /\ AnIdle

SpecV4 == InitV4 /\ [][V4Next]_vars

InitRollUp ==
  /\ RollUpStart
  /\ MapIdle
  /\ SelIdle
  /\ V4Idle
  /\ EnhIdle
  /\ ConsIdle
  /\ HookIdle
  /\ MbaIdle
  /\ RepIdle
  /\ AutoIdle
  /\ AnIdle

SpecRollUp == InitRollUp /\ [][RollUpNext]_vars

InitEnh ==
  /\ EnhStart
  /\ MapIdle
  /\ SelIdle
  /\ V4Idle
  /\ RollUpIdle
  /\ ConsIdle
  /\ HookIdle
  /\ MbaIdle
  /\ RepIdle
  /\ AutoIdle
  /\ AnIdle

SpecEnh == InitEnh /\ [][EnhNext]_vars

InitCons ==
  /\ ConsStart
  /\ MapIdle
  /\ SelIdle
  /\ V4Idle
  /\ RollUpIdle
  /\ EnhIdle
  /\ HookIdle
  /\ MbaIdle
  /\ RepIdle
  /\ AutoIdle
  /\ AnIdle

SpecCons == InitCons /\ [][ConsNext]_vars

InitHook ==
  /\ HookStart
  /\ MapIdle
  /\ SelIdle
  /\ V4Idle
  /\ RollUpIdle
  /\ EnhIdle
  /\ ConsIdle
  /\ MbaIdle
  /\ RepIdle
  /\ AutoIdle
  /\ AnIdle

SpecHook == InitHook /\ [][HookNext]_vars

InitMba ==
  /\ MbaStart
  /\ MapIdle
  /\ SelIdle
  /\ V4Idle
  /\ RollUpIdle
  /\ EnhIdle
  /\ ConsIdle
  /\ HookIdle
  /\ RepIdle
  /\ AutoIdle
  /\ AnIdle

SpecMba == InitMba /\ [][MbaNext]_vars

InitAuto ==
  /\ AutoStart
  /\ MapIdle
  /\ SelIdle
  /\ V4Idle
  /\ RollUpIdle
  /\ EnhIdle
  /\ ConsIdle
  /\ HookIdle
  /\ MbaIdle
  /\ AnIdle

SpecAuto == InitAuto /\ [][AutoNext]_vars

InitAn ==
  /\ AnStart
  /\ MapIdle
  /\ SelIdle
  /\ V4Idle
  /\ RollUpIdle
  /\ EnhIdle
  /\ ConsIdle
  /\ HookIdle
  /\ MbaIdle
  /\ RepIdle
  /\ AutoIdle

SpecAn == InitAn /\ [][AnNext]_vars

(***************************************************************************)
(* Claims                                                                  *)
(***************************************************************************)
\* The points reachable from point index i along requiredBefore in at most k steps
RECURSIVE RequiredWithin(_, _, _)
RequiredWithin(points, i, k) ==
  IF k = 0 THEN {}
  ELSE LET direct == { j \in 1..Len(points) : Includes(points[i].requiredBefore, points[j].id) }
       IN  direct \cup UNION { RequiredWithin(points, j, k - 1) : j \in direct }

AcyclicRequiredBefore(points) ==
  \A i \in 1..Len(points) : i \notin RequiredWithin(points, i, Len(points))

\* C1: identifyIntegrationPoints returns the points in dependency order: when
\* requiredBefore is acyclic and A.requiredBefore contains B's id, B comes
\* before A in the returned list, and so in the implementation plan.
C1_DependencyOrder ==
  (mapPc \in {"identified", "planned"} /\ AcyclicRequiredBefore(mapPoints)) =>
    /\ \A a, b \in 1..Len(mapPoints) :
         Includes(mapPoints[a].requiredBefore, mapPoints[b].id) => b < a
    /\ mapPc = "planned" =>
         \A a, b \in 1..Len(mapPoints) :
           Includes(mapPoints[a].requiredBefore, mapPoints[b].id) =>
             \E x, y \in 1..Len(mapPlan) :
               /\ x < y
               /\ mapPlan[x] = PlanStep(mapPoints[b].id, Len(mapPoints[b].prs) + 3,
                                        "create-branch", mapPoints[b].id)
               /\ mapPlan[y].section = mapPoints[a].id


\* C9: for every combination of analysis factors, each of the three strategy
\* scores of determineStrategy, and the confidence it returns, is in 0..100.
C9_ScoresWithin0To100 ==
  selPc = "done" =>
    /\ selRec.confidence \in 0..100
    /\ \A k \in 1..Len(AllStrategyScores(selRec)) :
         AllStrategyScores(selRec)[k].score \in 0..100

\* The PRs of v4Prs other than number n
OtherNumbers(n) == { v4Prs[i].number : i \in 1..Len(v4Prs) } \ {n}

\* The keep-latest execution ran to its end
KeepLatestExecuted ==
  v4Pc = "done" /\ \E c \in 1..Len(v4Calls) : v4Calls[c].op = "approve"

\* C2: executing keep-latest on any fetched list, duplicates in --prs
\* included, approves a most recently created PR, comments on (to close)
\* every other PR, and never comments on or closes the PR it keeps.
C2_KeepLatestKeepsNewest ==
  KeepLatestExecuted =>
    \E k \in 1..Len(v4Prs) :
      /\ \A i \in 1..Len(v4Prs) : v4Prs[i].createdAt <= v4Prs[k].createdAt
      /\ \E c \in 1..Len(v4Calls) :
           v4Calls[c].op = "approve" /\ v4Calls[c].pr = v4Prs[k].number
      /\ \A c \in 1..Len(v4Calls) :
           v4Calls[c].op \in {"comment", "close"} => v4Calls[c].pr # v4Prs[k].number
      /\ \A n \in OtherNumbers(v4Prs[k].number) :
           \E c \in 1..Len(v4Calls) :
             v4Calls[c].op = "comment" /\ v4Calls[c].pr = n

\* C3: a run without --execute is analysis-only: it makes no call that
\* modifies a PR, and when it ends normally it has saved the report.
C3_AnalysisOnlyWithoutExecute ==
  ~v4Args.execute =>
    /\ v4Calls = << >>
    /\ v4Pc = "done" => v4Report # << >>

\* The run was given PR numbers and none of them can be fetched
OnlyUnfetchablePRs ==
  /\ v4PrNumbers # << >>
  /\ \A i \in 1..Len(v4PrNumbers) : v4PrNumbers[i] \notin 1..MaxV4PRs

\* C7: a run whose PR numbers are all unfetchable ends with exit code 1 and
\* the message "No PRs to consolidate", without processing a strategy,
\* saving a report or modifying a PR.
C7_UnfetchableExitsNoPRs ==
  (OnlyUnfetchablePRs /\ v4Pc \in {"exited", "done"}) =>
    /\ v4Exit = <<1>>
    /\ Includes(v4Out, "No PRs to consolidate. Exiting.")
    /\ ~Includes(v4Out, "Processing PRs")
    /\ v4Report = << >>
    /\ v4Calls = << >>

\* C8: with --strategy s, s one of the three strategies, s is the strategy
\* reported as recommended, with confidence 100 whatever the factors are,
\* and s is the strategy of the plan and of the report; determineStrategy
\* chooses only with --strategy auto.
C8_ExplicitStrategyIsUsed ==
  Includes(v4Out, "Recommended Strategy") =>
    IF v4Args.strategy \in V4Strategies
      THEN /\ v4Rec.recommendedStrategy = v4Args.strategy
           /\ v4Rec.confidence = 100
           /\ ~Includes(v4Out, "Auto-determining optimal strategy")
           /\ v4Plan # NoPlan => v4Plan.heading = v4Args.strategy
           /\ \A r \in 1..Len(v4Report) :
                /\ v4Report[r].strategy = v4Args.strategy
                /\ v4Report[r].confidence = 100
                /\ v4Report[r].plan.heading = v4Args.strategy
      ELSE /\ Includes(v4Out, "Auto-determining optimal strategy")
           /\ v4Rec = determineStrategy(analyzePRsForStrategyFactors(v4Prs, MaxDay))

\* A report was saved for a strategy given on the command line that
\* determineStrategy would not have recommended for these PRs
C8_Witness ==
  /\ v4Args.strategy = "consolidation-map"
  /\ v4Report # << >>
  /\ determineStrategy(analyzePRsForStrategyFactors(v4Prs, MaxDay)).recommendedStrategy
       = "rolling-up"

\* C4: whenever an analysis has risk level High or lists conflicts, the
\* recommended strategy is manual-review and main closes and approves
\* nothing.
C4_RiskyMeansManualReview ==
  (\E a \in 1..Len(enhAnalyses) :
     enhAnalyses[a].riskLevel = "High" \/ Len(enhAnalyses[a].conflicts) > 0) =>
    /\ enhRec.strategy = "manual-review"
    /\ enhCalls = << >>

\* C5: with the new-branch strategy, every PR closed with the comment
\* "This PR has been consolidated into the new PR. Original changes
\* preserved." had its branch merged into the new branch; a PR whose fetch
\* failed or that was skipped is not closed.
C5_ClosedOnlyIfMerged ==
  \A c \in 1..Len(consCalls) :
    (consCalls[c].ok /\ consCalls[c].comment = CloseComment("new_branch")) =>
      consCalls[c].pr \in consMerged

\* C6: with keep_oldest (keep_newest) the kept PR has the earliest (latest)
\* createdAt of the group and is never closed; the other PRs of the group
\* are closed only after the user confirms, and none is closed when the
\* user declines.
C6_KeepStrategyClosesOthersOnConfirm ==
  consStrategy \in {"keep_oldest", "keep_newest"} =>
    /\ \E k \in 1..Len(consGroup) :
         /\ consGroup[k].number = consKeep
         /\ \A i \in 1..Len(consGroup) :
              IF consStrategy = "keep_oldest"
                THEN consGroup[k].createdAt <= consGroup[i].createdAt
                ELSE consGroup[k].createdAt >= consGroup[i].createdAt
    /\ \A c \in 1..Len(consCalls) :
         /\ consCalls[c].pr # consKeep
         /\ consCalls[c].pr \in Range(NumbersOf(consGroup))
    /\ consCalls # << >> => consConfirm = "yes"
    /\ (consPc = "done" /\ consConfirm = "yes") =>
         \A n \in Range(NumbersOf(consGroup)) \ {consKeep} :
           \E c \in 1..Len(consCalls) : consCalls[c].pr = n

\* keep_newest was confirmed on a group created over several days and the
\* close loop has ended
C6_Witness ==
  /\ consStrategy = "keep_newest"
  /\ consConfirm = "yes"
  /\ consPc = "done"
  /\ \E c \in 1..Len(consCalls) : consCalls[c].ok
  /\ \E i, j \in 1..Len(consGroup) : consGroup[i].createdAt < consGroup[j].createdAt

\* The requests whose 'end' callback (or whose handler, for the other
\* routes) has run: they are waiting for their review, finished or threw
Processed == { i \in 1..Len(hookReqs) : hookStage[i] # "receiving" }

\* C10: with WEBHOOK_SECRET configured, a POST to /webhook triggers a review
\* only when it carries the valid x-hub-signature-256 of its body; a request
\* whose signature is missing or does not match is answered 401 and
\* triggers no review.
C10_ReviewOnlyWithValidSignature ==
  \A i \in Processed :
    (hookSecret # "" /\ hookReqs[i].method = "POST" /\ hookReqs[i].url = "/webhook") =>
      IF hookReqs[i].signature = <<Sign(hookSecret, hookReqs[i].body)>>
        THEN TRUE
        ELSE /\ hookReviews[i] = << >>
             /\ hookResponses[i] = <<Response(401, "Invalid signature")>>

\* C11: the webhook server starts a review for a request only if it is a
\* POST to /webhook with x-github-event pull_request whose action is opened,
\* synchronize or reopened and whose base branch is main; every other
\* request starts no review.
C11_ReviewOnlyForPREventsOnMain ==
  \A i \in 1..Len(hookReqs) :
    hookReviews[i] # << >> =>
      /\ hookReqs[i].method = "POST"
      /\ hookReqs[i].url = "/webhook"
      /\ hookReqs[i].event = "pull_request"
      /\ hookReqs[i].body.json
      /\ hookReqs[i].body.payload # << >>
      /\ hookReqs[i].body.payload[1].action \in {"opened", "synchronize", "reopened"}
      /\ hookReqs[i].body.payload[1].base = "main"
      /\ hookReviews[i] = <<hookReqs[i].body.payload[1].number>>

\* A review was started for a reopened PR that arrived after another
\* request, and has ended
C11_Witness ==
  /\ Len(hookReqs) = 2
  /\ hookReviews[2] # << >>
  /\ hookReqs[2].body.payload[1].action = "reopened"
  /\ hookStage[2] = "finished"

\* C12: the server writes exactly one response for every request; for an
\* accepted pull_request event it is 200 "OK - processing", written when
\* the review starts, and a failure of the processing that follows writes
\* no second response.
C12_ExactlyOneResponse ==
  \A i \in Processed :
    /\ Len(hookResponses[i]) = 1
    /\ hookReviews[i] # << >> => hookResponses[i] = <<Response(200, "OK - processing")>>

\* The git commands of the last analysis that ran a merge without committing
TestMerges ==
  { i \in 1..Len(mbaCommands) :
      /\ mbaCommands[i][1] = "merge"
      /\ Includes(mbaCommands[i], "--no-commit") }

\* C13: every run of detectPotentialMergeConflicts performs the test merge
\* `git merge --no-commit --no-ff`, and whatever its outcome, the repository
\* has no merge in progress that the analysis started when the function
\* returns: the analysis leaves the merge state of the repository as it
\* found it.
C13_TestMergeIsAborted ==
  mbaPc = "done" =>
    /\ TestMerges # {}
    /\ mbaRepo.mergeHead = "none"

\* The name of the latest report of a pull request: the name of its reports
\* with the timestamp replaced by 'latest'
LatestFilename(prNumber) ==
  ReportPrefix \o Decimal(prNumber) \o <<"-", "l", "a", "t", "e", "s", "t", ".", "m", "d">>

\* C14: after any sequence of runs, the report of the most recent run is in
\* the 'latest' file of its pull request, a file distinct from every
\* timestamped file, and the timestamped file of every run is still there
\* with the report of that run.
C14_LatestAndTimestampedReports ==
  repSaved # << >> =>
    LET last == repSaved[Len(repSaved)]
    IN  /\ LatestFilename(last.content.prNumber) \in DOMAIN repFiles
        /\ repFiles[LatestFilename(last.content.prNumber)] = last.content
        /\ \A i \in 1..Len(repSaved) :
             /\ repSaved[i].filename # LatestFilename(repSaved[i].content.prNumber)
             /\ repSaved[i].filename \in DOMAIN repFiles
             /\ repFiles[repSaved[i].filename] = repSaved[i].content

\* C15: a review request is sent (at most once) only when none of the three
\* analyses has overall risk High and there are no version conflicts, no
\* missing peer dependencies and no potential merge conflicts; a run that
\* finished on any other analysis has sent no review request.
C15_ReviewRequestedOnlyWhenReady ==
  /\ Len(autoRequests) <= 1
  /\ autoRequests # << >> =>
       /\ autoAnalyses.mainBranchRisk # "High"
       /\ autoAnalyses.raceConditionRisk # "High"
       /\ autoAnalyses.dependencyRisk # "High"
       /\ autoAnalyses.versionConflicts = 0
       /\ autoAnalyses.missingPeerDependencies = 0
       /\ autoAnalyses.potentialMergeConflicts = 0

C15_Witness ==
  /\ autoPc = "done"
  /\ autoRequests = <<{"aire-team", "senior-dev"}>>
  /\ autoAnalyses.mainBranchRisk = "Medium"

\* C17: the priority score of an analysed pull request is an integer
\* within 1..100, whatever its risk level, age and title.
C17_PriorityScoreWithin1To100 ==
  anPc = "done" => anScore \in 1..100

C17_Witness ==
  /\ anPc = "done"
  /\ anPr.riskLevel = "High"
  /\ anPr.ageHours < 48
  /\ anPr.prefix = "docs:"
  /\ anScore = 15

\* The action steps of the rolling-up plan
RollingUpSteps == ruPlan.steps

\* C16: the rolling-up plan of n PRs has n + 1 action steps numbered
\* 1..n+1: step 1 starts with a PR whose createdAt is the earliest, steps
\* 2..n add the changes of every other PR of the list exactly once, in
\* non-decreasing createdAt order, and step n + 1 creates the consolidated
\* PR.
C16_RollingUpOldestToLatest ==
  ruPlan.heading = "rolling-up" =>
    LET n == Len(ruPrs)
    IN  /\ Len(RollingUpSteps) = n + 1
        /\ \A i \in 1..(n + 1) : RollingUpSteps[i].num = i
        /\ RollingUpSteps[1].action = "start-with-pr"
        /\ RollingUpSteps[n + 1].action = "create-consolidated-pr"
        /\ \A i \in 2..n : RollingUpSteps[i].action = "add-changes"
        /\ \E k \in 1..n :
             /\ ruPrs[k].number = RollingUpSteps[1].ref
             /\ \A i \in 1..n : ruPrs[k].createdAt <= ruPrs[i].createdAt
             /\ \A m \in { ruPrs[i].number : i \in 1..n } :
                  Cardinality({ i \in 2..n : RollingUpSteps[i].ref = m })
                    = Cardinality({ i \in (1..n) \ {k} : ruPrs[i].number = m })
        /\ \A i, j \in 2..n :
             i < j =>
               \A a, b \in 1..n :
                 (ruPrs[a].number = RollingUpSteps[i].ref
                    /\ ruPrs[b].number = RollingUpSteps[j].ref)
                   => ruPrs[a].createdAt <= ruPrs[b].createdAt

\* Three PRs created on three days, given newest, oldest, middle: the plan
\* starts with the oldest and adds the middle one before the newest
C16_Witness ==
  /\ ruPlan.heading = "rolling-up"
  /\ Len(ruPrs) = 3
  /\ ruPrs[1].createdAt > ruPrs[3].createdAt
  /\ ruPrs[3].createdAt > ruPrs[2].createdAt
  /\ RollingUpSteps[1].ref = ruPrs[2].number
  /\ RollingUpSteps[2].ref = ruPrs[3].number
  /\ RollingUpSteps[3].ref = ruPrs[1].number

\* The integration points of the result that hold the PR number n
PointsHolding(n) ==
  { i \in 1..Len(mapPoints) : Includes(mapPoints[i].prs, n) }

\* C18: in the result of identifyIntegrationPoints no PR number appears in
\* more than one integration point, nor twice in one, groups of connected
\* PRs larger than MAX_INTEGRATION_POINT_SIZE included.
C18_NoPRInTwoIntegrationPoints ==
  mapPc # "input" =>
    \A n \in Range(mapPrs) :
      /\ Cardinality(PointsHolding(n)) <= 1
      /\ \A i \in PointsHolding(n) :
           Cardinality({ k \in 1..Len(mapPoints[i].prs) : mapPoints[i].prs[k] = n }) = 1

\* C19: in the result of identifyIntegrationPoints every input PR appears
\* in at least one integration point.
C19_EveryPRInSomeIntegrationPoint ==
  mapPc # "input" =>
    \A n \in Range(mapPrs) : PointsHolding(n) # {}

\* A PR that neither of the first two passes grouped is in the final point
C19_Witness ==
  /\ mapPc = "identified"
  /\ Len(mapPrs) = 3
  /\ \E i \in 1..Len(mapPoints) :
       /\ Len(mapPoints[i].prs) = 2
       /\ \E j \in 1..Len(mapPoints) : mapPoints[j].prs = <<3>>

====
